---------------------------- MODULE Spec2Model ----------------------------
(***************************************************************************)
(* Resilient-request subsystem of the Auto-salvage chatbot client:         *)
(*   - NetworkReliabilityManager (request queue, quality tracking,         *)
(*     deadline timers)        src/src/services/NetworkReliabilityManager.js*)
(*   - RetryHandler (shouldRetry, calculateDelay, executeWithRetry) and    *)
(*     the error classifier of OllamaService                               *)
(*                             src/src/services/OllamaService.js           *)
(*   - CorsProxyService (fallback chain of proxy strategies)               *)
(*                             src/src/services/CorsProxyService.js        *)
(***************************************************************************)
EXTENDS Integers, Sequences, FiniteSets, TLC

(***************************************************************************)
(* Bounds of the model                                                     *)
(***************************************************************************)
\* number of request ids a behaviour may submit
MaxRequests == 3
\* configured queue capacity (config.maxQueueSize) used by the queue model
MaxQueueSize == 2
\* configured connectionQualityWindow used by the queue model
ModelWindow == 1
\* number of recordResponseTime calls followed by the window model
MaxRecords == 4
\* largest configured RetryHandler.maxRetries
MaxRetryConfig == 4
\* largest attempt number passed to shouldRetry / calculateDelay directly
MaxAttempt == 6
\* Math.random() is one of 0/JitterSteps .. (JitterSteps-1)/JitterSteps
JitterSteps == 4
\* number of makeRequest calls a behaviour of the proxy service makes
MaxProxyCalls == 2
\* largest number of JSON objects in a streamed response
MaxObjects == 3
\* number of checkConnection / _sendMessageInternal calls of a behaviour of
\* the service, any of which may overlap
MaxOperations == 2
\* reconnections of one ConnectionMonitor that are followed
MaxReconnectAttempts == 6

(***************************************************************************)
(* Program constants                                                       *)
(***************************************************************************)
\* the automatic reconnection effect runs while reconnectAttempts < 5
AutoReconnectLimit == 5
DefaultWindow == 5
DefaultSlowThreshold == 5000
DefaultVerySlowThreshold == 10000
TestWindow == 3
TestSlowThreshold == 2000
TestVerySlowThreshold == 5000
ExcellentAverage == 1000
ExcellentMax == 2000
GoodAverage == 2000
DefaultMaxRetries == 3
TimeoutBaseDelay == 2000
NetworkBaseDelay == 1500
ServerBaseDelay == 3000
DefaultBaseDelay == 1000
DelayCap == 15000
\* the jitter factor 0.2 is 1 / JitterDivisor
JitterDivisor == 5

Ids == 1..MaxRequests
Priorities == {"high", "normal", "low"}
Qualities == {"unknown", "excellent", "good", "slow", "poor"}

\* response times (ms) measured for requests of the queue model
SpecTimes == {500, 1500, 3000, 12000}
\* response times (ms) recorded in the window model
QualityTimes == {500, 600, 700, 3000, 3500, 4000, 6000, 7000, 8000}

\* the configurations a manager is constructed with
ModelConfig ==
  [maxQueueSize |-> MaxQueueSize,
   connectionQualityWindow |-> ModelWindow,
   slowConnectionThreshold |-> DefaultSlowThreshold,
   verySlowConnectionThreshold |-> DefaultVerySlowThreshold]

DefaultConfig ==
  [maxQueueSize |-> MaxQueueSize,
   connectionQualityWindow |-> DefaultWindow,
   slowConnectionThreshold |-> DefaultSlowThreshold,
   verySlowConnectionThreshold |-> DefaultVerySlowThreshold]

TestConfig ==
  [maxQueueSize |-> MaxQueueSize,
   connectionQualityWindow |-> TestWindow,
   slowConnectionThreshold |-> TestSlowThreshold,
   verySlowConnectionThreshold |-> TestVerySlowThreshold]

VARIABLES
  config,               \* this.config
  requestQueue,         \* this.requestQueue: sequence of request ids, head first
  isProcessingQueue,    \* this.isProcessingQueue
  queueProcessor,       \* this.queueProcessor: TRUE iff the drain interval is scheduled
  responseTimeHistory,  \* this.responseTimeHistory: sequence of times, oldest first
  connectionQuality,    \* this.connectionQuality
  activeTimeouts,       \* keys of this.activeTimeouts
  timeoutWarnings,      \* keys of this.timeoutWarnings
  warningTimer,         \* request ids whose warning timer is scheduled
  actualTimer,          \* request ids whose hard-deadline timer is scheduled
  progressInterval,     \* request ids whose progress interval is scheduled
  aborted,              \* running request ids whose controller.signal.aborted is true
  stats,                \* this.stats
  requests,             \* per request id: the state of its promise and, while it
                        \* is a queue entry, its priority and options.onProgress
  nextId,               \* next fresh request id
  recorded,             \* all samples passed to recordResponseTime since the last reset
  startCall,            \* the last direct call of startQueueProcessing: the state
                        \* it found, whether it created the interval, how it ended
  drainIntervals,       \* number of intervals set by startQueueProcessing and
                        \* not cleared
  progressCalls,        \* the calls of onProgress by the progress interval: for
                        \* which request, and whether its signal was aborted
  maxRetries,           \* RetryHandler.maxRetries
  pc,                   \* where executeWithRetry stands
  attempt,              \* loop variable of executeWithRetry
  lastError,            \* lastError of executeWithRetry
  raised,               \* what executeWithRetry threw to its caller
  calls,                \* number of invocations of operation() so far
  delays,               \* number of backoff waits started so far
  currentDelay,         \* the delay being waited, in ms
  policyCall,           \* the last direct call of shouldRetry / calculateDelay
  classification,       \* the last call of categorizeHttpError / categorizeConnectionError
  proxyConfig,          \* CorsProxyService: useProxy, whether corsProxy is set,
                        \* whether NODE_ENV is 'production'
  proxyStrategies,      \* CorsProxyService.proxyStrategies
  proxyPc,              \* where makeRequest stands
  proxyIndex,           \* position of the for...of loop of makeRequest
  proxyAttempts,        \* the strategies executeStrategy was called with, in order
  proxyErrors,          \* errors of makeRequest: <<[strategy, message]>>
  proxyReturned,        \* the strategy whose response makeRequest returned
  proxyThrown,          \* the CorsProxyError makeRequest threw
  proxyCalls,           \* number of makeRequest calls so far
  serviceConfig,        \* OllamaService: whether config.baseUrl is remote, and
                        \* config.corsMode; networkConfig is proxyConfig
  connectionStatus,     \* this.connectionStatus: status and error
  requestPc,            \* where OllamaService.makeRequest stands
  requestError,         \* the error caught by makeRequest's catch block
  requestChainCalls,    \* calls of corsProxyService.makeRequest by makeRequest
  requestThrown,        \* the error makeRequest threw to its caller
  operations,           \* the calls of checkConnection and _sendMessageInternal:
                        \* what each is, where it stands and what it threw
  objects,              \* the JSON objects the server streams, in order
  stream,               \* what reader.read() delivers: the lines of each chunk
  streamPc,             \* where the read loop of _sendMessageStreamInternal stands
  streamReads,          \* number of reader.read() calls so far
  fullResponse,         \* fullResponse of the read loop, as a sequence of characters
  delivered,            \* the calls of onChunk: <<[chunk, full]>>
  streamReturned,       \* what _sendMessageStreamInternal returned
  streamAttempt,        \* attempt of the executeWithRetry loop that runs the
                        \* streaming send
  fallback,             \* sendMessageWithFallback: its outcome, the error its
                        \* catch block received and the error it threw
  monitorStatus,        \* ConnectionMonitor: connectionStatus.status of the
                        \* component's state
  isReconnecting,       \* ConnectionMonitor: isReconnecting
  reconnectAttempts,    \* ConnectionMonitor: reconnectAttempts
  reconnect,            \* the handleReconnect call that is running: started by
                        \* the timer or the button, and the status its closure holds
  healthCheckInterval,  \* OllamaService: whether the health interval is set
  initialCheck,         \* whether the initial health check's timeout is pending
  destroyed             \* whether destroy() was called

nrmVars == <<config, requestQueue, isProcessingQueue, queueProcessor,
             responseTimeHistory, connectionQuality, activeTimeouts,
             timeoutWarnings, warningTimer, actualTimer, progressInterval,
             aborted, stats, requests, nextId, recorded, startCall,
             progressCalls, drainIntervals>>

retryVars == <<maxRetries, pc, attempt, lastError, raised, calls, delays,
               currentDelay, policyCall>>

classifierVars == <<classification>>

proxyVars == <<proxyConfig, proxyStrategies, proxyPc, proxyIndex, proxyAttempts,
               proxyErrors, proxyReturned, proxyThrown, proxyCalls>>

serviceVars == <<serviceConfig, connectionStatus, requestPc, requestError,
                 requestChainCalls, requestThrown, operations>>

streamVars == <<objects, stream, streamPc, streamReads, fullResponse, delivered,
                streamReturned, streamAttempt>>

fallbackVars == <<fallback>>

monitorVars == <<monitorStatus, isReconnecting, reconnectAttempts, reconnect>>

healthVars == <<healthCheckInterval, initialCheck, destroyed>>

vars == <<nrmVars, retryVars, classifierVars, proxyVars, serviceVars, streamVars,
          fallbackVars,
     monitorVars, healthVars>>

\* what every handler of the manager leaves alone
beyondManager == <<retryVars, classifierVars, proxyVars, serviceVars,
                   streamVars, fallbackVars,
     monitorVars, healthVars>>

\* what the handlers of the manager leave alone, a direct call of
\* startQueueProcessing and a firing of a progress interval apart
otherThanManager == <<beyondManager, startCall, progressCalls>>

\* what the steps of the retry handler leave alone
otherThanRetry == <<nrmVars, classifierVars, proxyVars, serviceVars, streamVars,
                    fallbackVars,
     monitorVars, healthVars>>

\* what the error classifier leaves alone
otherThanClassifier == <<nrmVars, retryVars, proxyVars, serviceVars, streamVars,
                         fallbackVars,
     monitorVars, healthVars>>

\* what the steps of the proxy service leave alone
otherThanProxy == <<nrmVars, retryVars, classifierVars, serviceVars, streamVars,
                    fallbackVars,
     monitorVars, healthVars>>

\* what the probes, sends and requests of OllamaService leave alone, the
\* proxy service apart
otherThanService == <<nrmVars, retryVars, classifierVars, streamVars, fallbackVars,
                      monitorVars, healthVars>>

\* what the read loop of a streaming send leaves alone
otherThanStream == <<nrmVars, retryVars, classifierVars, proxyVars, serviceVars,
                     fallbackVars,
     monitorVars, healthVars>>

\* what sendMessageWithFallback leaves alone
otherThanFallback == <<nrmVars, retryVars, classifierVars, proxyVars, serviceVars,
                       streamVars,
     monitorVars, healthVars>>

NoRequest ==
  [state |-> "none", priority |-> "normal", onProgress |-> FALSE,
   reason |-> "none"]

(***************************************************************************)
(* Pure helpers                                                            *)
(***************************************************************************)
RECURSIVE SumSeq(_)
SumSeq(s) == IF s = <<>> THEN 0 ELSE Head(s) + SumSeq(Tail(s))

RECURSIVE MaxSeq(_)
MaxSeq(s) ==
  IF Len(s) = 1 THEN Head(s)
  ELSE LET m == MaxSeq(Tail(s)) IN IF Head(s) > m THEN Head(s) ELSE m

\* FindLowIndex taking the newest low-priority entry (findLastIndex)
FindLowIndexNewest(q, reqs) ==
  IF \E i \in 1..Len(q) : reqs[q[i]].priority = "low"
  THEN CHOOSE i \in 1..Len(q) :
         /\ reqs[q[i]].priority = "low"
         /\ \A j \in (i + 1)..Len(q) : reqs[q[j]].priority # "low"
  ELSE 0

\* FindLowIndex taking the oldest entry whatever its priority
FindLowIndexAnyPriority(q, reqs) ==
  IF Len(q) > 0 THEN 1 ELSE 0

\* index of the first queue entry whose priority is low, 0 if none (findIndex)
FindLowIndex(q, reqs) ==
  IF \E i \in 1..Len(q) : reqs[q[i]].priority = "low"
  THEN CHOOSE i \in 1..Len(q) :
         /\ reqs[q[i]].priority = "low"
         /\ \A j \in 1..(i - 1) : reqs[q[j]].priority # "low"
  ELSE 0

\* q.splice(i, 1)
RemoveAt(q, i) == SubSeq(q, 1, i - 1) \o SubSeq(q, i + 1, Len(q))

\* updateConnectionQuality: the label computed from the window.
\* averageTime < X is compared as sum < X * length.
QualityOf(h, cfg) ==
  IF Len(h) = 0 THEN "unknown"
  ELSE LET total == SumSeq(h)
           n == Len(h)
           maxTime == MaxSeq(h)
       IN IF total < ExcellentAverage * n /\ maxTime < ExcellentMax
            THEN "excellent"
          ELSE IF total < GoodAverage * n /\ maxTime < cfg.slowConnectionThreshold
            THEN "good"
          ELSE IF /\ total < cfg.slowConnectionThreshold * n
                  /\ maxTime < cfg.verySlowConnectionThreshold
            THEN "slow"
          ELSE "poor"

\* PushSample dropping the oldest as soon as the window is reached
PushSampleOffByOne(h, t, cfg) ==
  LET pushed == Append(h, t)
  IN IF Len(pushed) >= cfg.connectionQualityWindow THEN Tail(pushed) ELSE pushed

\* recordResponseTime: push, drop the oldest when longer than the window
PushSample(h, t, cfg) ==
  LET pushed == Append(h, t)
  IN IF Len(pushed) > cfg.connectionQualityWindow THEN Tail(pushed) ELSE pushed

\* ShouldQueueRequest queueing under unknown quality as well
ShouldQueueRequestAlsoUnknown ==
  \/ connectionQuality = "poor"
  \/ connectionQuality = "unknown"
  \/ Len(requestQueue) > 0

\* shouldQueueRequest
ShouldQueueRequest ==
  connectionQuality = "poor" \/ Len(requestQueue) > 0

\* RoutedToQueue without the exemption of high priority
RoutedToQueueAnyPriority(priority) ==
  ShouldQueueRequest

\* executeRequest: the condition under which the request goes to queueRequest
RoutedToQueue(priority) ==
  ShouldQueueRequest /\ priority # "high"

\* QueueIsFull with > for >=
QueueIsFullOffByOne ==
  Len(requestQueue) > config.maxQueueSize

\* queueRequest: the capacity test
QueueIsFull ==
  Len(requestQueue) >= config.maxQueueSize

(***************************************************************************)
(* Fragments shared by the handlers                                        *)
(***************************************************************************)
\* recordResponseTime(t): window and label
RecordResponseTime(t) ==
  /\ responseTimeHistory' = PushSample(responseTimeHistory, t, config)
  /\ connectionQuality' = QualityOf(responseTimeHistory', config)

\* cleanupTimeouts(id)
CleanupTimeouts(id) ==
  /\ warningTimer' = IF id \in activeTimeouts THEN warningTimer \ {id} ELSE warningTimer
  /\ actualTimer' = IF id \in activeTimeouts THEN actualTimer \ {id} ELSE actualTimer
  /\ activeTimeouts' = activeTimeouts \ {id}
  /\ timeoutWarnings' = timeoutWarnings \ {id}

\* executeRequestWithTimeout(id, ...) up to its await: timers are set and the
\* operation is called
StartTimers(id, onProgress) ==
  /\ warningTimer' = warningTimer \cup {id}
  /\ actualTimer' = actualTimer \cup {id}
  /\ activeTimeouts' = activeTimeouts \cup {id}
  /\ progressInterval' = IF onProgress THEN progressInterval \cup {id}
                         ELSE progressInterval
  /\ UNCHANGED <<timeoutWarnings, aborted>>

\* startQueueProcessing / stopQueueProcessing
StartQueueProcessing ==
  /\ isProcessingQueue' = TRUE
  /\ queueProcessor' = TRUE
  /\ drainIntervals' = drainIntervals + 1

StopQueueProcessing ==
  /\ isProcessingQueue' = FALSE
  /\ queueProcessor' = FALSE
  /\ drainIntervals' = IF queueProcessor THEN drainIntervals - 1 ELSE drainIntervals

\* no direct call of startQueueProcessing
NoStartCall ==
  [outcome |-> "none", queueEmpty |-> FALSE, wasProcessing |-> FALSE,
   created |-> FALSE, processing |-> FALSE]

\* AlreadyProcessing without the test
AlreadyProcessingIgnored == FALSE

\* startQueueProcessing: if (this.isProcessingQueue) return
AlreadyProcessing == isProcessingQueue

\* queueRequest(id, fn, options): the queue and the promises after the call;
\* statsIn is this.stats when the method is entered
QueueRequest(id, priority, onProgress, statsIn) ==
  LET full == QueueIsFull
      low == FindLowIndex(requestQueue, requests)
      entry == [state |-> "queued", priority |-> priority,
                onProgress |-> onProgress, reason |-> "none"]
  IN IF full /\ low = 0
       THEN /\ requests' = [requests EXCEPT
                   ![id] = [NoRequest EXCEPT !.state = "rejected", !.reason = "full"]]
            /\ stats' = statsIn
            /\ UNCHANGED <<requestQueue, isProcessingQueue, queueProcessor, drainIntervals>>
       ELSE LET kept == IF full THEN RemoveAt(requestQueue, low) ELSE requestQueue
                afterEvict ==
                  IF full
                    THEN [requests EXCEPT ![requestQueue[low]] =
                            [NoRequest EXCEPT !.state = "rejected", !.reason = "capacity"]]
                    ELSE requests
            IN /\ requestQueue' = IF priority = "high" THEN <<id>> \o kept
                                  ELSE Append(kept, id)
               /\ requests' = [afterEvict EXCEPT ![id] = entry]
               /\ stats' = [statsIn EXCEPT !.queuedRequests = @ + 1]
               /\ IF AlreadyProcessing
                    THEN UNCHANGED <<isProcessingQueue, queueProcessor, drainIntervals>>
                    ELSE StartQueueProcessing

(***************************************************************************)
(* Handlers of NetworkReliabilityManager                                   *)
(***************************************************************************)
\* executeRequest(id, fn, {priority, onProgress})
ExecuteRequest(priority, onProgress) ==
  /\ nextId \in Ids
  /\ nextId' = nextId + 1
  /\ IF RoutedToQueue(priority)
       THEN /\ QueueRequest(nextId, priority, onProgress,
                            [stats EXCEPT !.totalRequests = @ + 1])
            /\ UNCHANGED <<activeTimeouts, timeoutWarnings, warningTimer,
                           actualTimer, progressInterval, aborted>>
       ELSE /\ StartTimers(nextId, onProgress)
            /\ requests' = [requests EXCEPT ![nextId] =
                   [NoRequest EXCEPT !.state = "running"]]
            /\ stats' = [stats EXCEPT !.totalRequests = @ + 1]
            /\ UNCHANGED <<requestQueue, isProcessingQueue, queueProcessor, drainIntervals>>
  /\ UNCHANGED <<config, responseTimeHistory, connectionQuality, recorded>>
  /\ UNCHANGED otherThanManager

\* DrainWaits without the test for unknown quality
DrainWaitsOnlyWhenPoor ==
  connectionQuality = "poor"

\* the interval callback: the quality is not good enough to process the queue
DrainWaits ==
  connectionQuality = "poor" \/ connectionQuality = "unknown"

\* one firing of the interval callback of startQueueProcessing, up to its await
DrainTick ==
  /\ queueProcessor
  /\ IF Len(requestQueue) = 0
       THEN /\ StopQueueProcessing
            /\ UNCHANGED <<requestQueue, requests, activeTimeouts, timeoutWarnings,
                           warningTimer, actualTimer, progressInterval, aborted>>
       ELSE IF DrainWaits
         THEN UNCHANGED <<requestQueue, requests, isProcessingQueue, queueProcessor, drainIntervals,
                          activeTimeouts, timeoutWarnings, warningTimer,
                          actualTimer, progressInterval, aborted>>
         ELSE LET id == Head(requestQueue)
              IN /\ requestQueue' = Tail(requestQueue)
                 /\ requests' = [requests EXCEPT ![id] =
                                    [NoRequest EXCEPT !.state = "running"]]
                 /\ StartTimers(id, requests[id].onProgress)
                 /\ UNCHANGED <<isProcessingQueue, queueProcessor, drainIntervals>>
  /\ UNCHANGED <<config, responseTimeHistory, connectionQuality, stats, nextId,
                 recorded>>
  /\ UNCHANGED otherThanManager

\* the warning timer of a running request fires
WarningFires(id) ==
  /\ id \in warningTimer
  /\ warningTimer' = warningTimer \ {id}
  /\ timeoutWarnings' = timeoutWarnings \cup {id}
  /\ UNCHANGED <<config, requestQueue, isProcessingQueue, queueProcessor, drainIntervals,
                 responseTimeHistory, connectionQuality, activeTimeouts,
                 actualTimer, progressInterval, aborted, stats, requests, nextId,
                 recorded>>
  /\ UNCHANGED otherThanManager

\* the progress interval of a request fires: onProgress(progress, elapsed,
\* timeoutWarningShown) is called, whatever the signal says
ProgressFires(id) ==
  /\ id \in progressInterval
  /\ progressCalls' = progressCalls \cup {[id |-> id, aborted |-> id \in aborted]}
  /\ UNCHANGED <<config, requestQueue, isProcessingQueue, queueProcessor, drainIntervals,
                 responseTimeHistory, connectionQuality, activeTimeouts,
                 timeoutWarnings, warningTimer, actualTimer, progressInterval,
                 aborted, stats, requests, nextId, recorded, startCall>>
  /\ UNCHANGED beyondManager

\* the hard-deadline timer of a running request fires: abort and count
DeadlineFires(id) ==
  /\ id \in actualTimer
  /\ actualTimer' = actualTimer \ {id}
  /\ aborted' = aborted \cup {id}
  /\ stats' = [stats EXCEPT !.timeoutRequests = @ + 1]
  /\ UNCHANGED <<config, requestQueue, isProcessingQueue, queueProcessor, drainIntervals,
                 responseTimeHistory, connectionQuality, activeTimeouts,
                 timeoutWarnings, warningTimer, progressInterval, requests, nextId,
                 recorded>>
  /\ UNCHANGED otherThanManager

\* the awaited operation of a running request resolves after t ms:
\* success path of executeRequestWithTimeout
OperationResolves(id, t) ==
  /\ requests[id].state = "running"
  /\ progressInterval' = progressInterval \ {id}
  /\ RecordResponseTime(t)
  /\ stats' = [stats EXCEPT !.successfulRequests = @ + 1]
  /\ CleanupTimeouts(id)
  /\ requests' = [requests EXCEPT ![id] = [NoRequest EXCEPT !.state = "resolved"]]
  /\ aborted' = aborted \ {id}
  /\ UNCHANGED <<config, requestQueue, isProcessingQueue, queueProcessor, drainIntervals,
                 nextId, recorded>>
  /\ UNCHANGED otherThanManager

\* the awaited operation of a running request rejects after t ms:
\* failure path of executeRequestWithTimeout
OperationRejects(id, t) ==
  /\ requests[id].state = "running"
  /\ stats' = [stats EXCEPT !.failedRequests = @ + 1]
  /\ CleanupTimeouts(id)
  /\ IF id \notin aborted
       THEN RecordResponseTime(t)
       ELSE UNCHANGED <<responseTimeHistory, connectionQuality>>
  /\ requests' = [requests EXCEPT ![id] =
                     [NoRequest EXCEPT !.state = "rejected", !.reason = "error"]]
  /\ aborted' = aborted \ {id}
  /\ UNCHANGED <<config, requestQueue, isProcessingQueue, queueProcessor, drainIntervals,
                 progressInterval, nextId, recorded>>
  /\ UNCHANGED otherThanManager

\* the awaited operation of a running request that passed onProgress resolves
\* after t ms and the final onProgress(100, ...) throws inside the try block:
\* the success path up to the callback, then the catch block, which reads the
\* clock again (t2 >= t)
FinalProgressThrows(id, t, t2) ==
  /\ requests[id].state = "running"
  /\ id \in progressInterval
  /\ t2 >= t
  /\ progressInterval' = progressInterval \ {id}
  /\ stats' = [stats EXCEPT !.successfulRequests = @ + 1,
                            !.failedRequests = @ + 1]
  /\ CleanupTimeouts(id)
  /\ LET first == PushSample(responseTimeHistory, t, config)
     IN /\ responseTimeHistory' = IF id \notin aborted
                                    THEN PushSample(first, t2, config)
                                    ELSE first
        /\ connectionQuality' = QualityOf(responseTimeHistory', config)
  /\ requests' = [requests EXCEPT ![id] =
                     [NoRequest EXCEPT !.state = "rejected", !.reason = "callback"]]
  /\ aborted' = aborted \ {id}
  /\ UNCHANGED <<config, requestQueue, isProcessingQueue, queueProcessor, drainIntervals,
                 nextId, recorded>>
  /\ UNCHANGED otherThanManager

\* startQueueProcessing() called directly: nothing when the queue is already
\* being processed, else the interval is created, whatever the queue holds;
\* no path of the method throws
StartQueueProcessingCall ==
  /\ IF AlreadyProcessing
       THEN UNCHANGED <<isProcessingQueue, queueProcessor, drainIntervals>>
       ELSE StartQueueProcessing
  /\ startCall' = [outcome |-> "returned",
                   queueEmpty |-> Len(requestQueue) = 0,
                   wasProcessing |-> isProcessingQueue,
                   created |-> ~AlreadyProcessing,
                   processing |-> isProcessingQueue']
  /\ UNCHANGED <<config, requestQueue, responseTimeHistory, connectionQuality,
                 activeTimeouts, timeoutWarnings, warningTimer, actualTimer,
                 progressInterval, aborted, stats, requests, nextId, recorded>>
  /\ UNCHANGED <<beyondManager, progressCalls>>

\* stopQueueProcessing() called directly
StopQueueProcessingCall ==
  /\ StopQueueProcessing
  /\ UNCHANGED <<config, requestQueue, responseTimeHistory, connectionQuality,
                 activeTimeouts, timeoutWarnings, warningTimer, actualTimer,
                 progressInterval, aborted, stats, requests, nextId, recorded>>
  /\ UNCHANGED otherThanManager

\* recordResponseTime(t) called by the owner of the manager
RecordResponseTimeCall(t) ==
  /\ RecordResponseTime(t)
  /\ UNCHANGED <<config, requestQueue, isProcessingQueue, queueProcessor, drainIntervals,
                 activeTimeouts, timeoutWarnings, warningTimer, actualTimer,
                 progressInterval, aborted, stats, requests, nextId, recorded>>
  /\ UNCHANGED otherThanManager

\* recordResponseTime(t), the samples passed so far being kept in recorded
RecordSample(t) ==
  /\ Len(recorded) < MaxRecords
  /\ RecordResponseTime(t)
  /\ recorded' = Append(recorded, t)
  /\ UNCHANGED <<config, requestQueue, isProcessingQueue, queueProcessor, drainIntervals,
                 activeTimeouts, timeoutWarnings, warningTimer, actualTimer,
                 progressInterval, aborted, stats, requests, nextId>>
  /\ UNCHANGED otherThanManager

\* reasons passed to clearQueue: the default 'Queue cleared' and one of a caller
ClearReasons == {"cleared", "recovery"}

\* RejectQueued rejecting the requests that were taken from the queue and are
\* running as well
RejectQueuedAndRunning(reason) ==
  [id \in Ids |->
     IF \/ \E i \in 1..Len(requestQueue) : requestQueue[i] = id
        \/ requests[id].state = "running"
       THEN [NoRequest EXCEPT !.state = "rejected", !.reason = reason]
       ELSE requests[id]]

\* RejectQueued rejecting the head entry only
RejectQueuedHeadOnly(reason) ==
  [id \in Ids |->
     IF requestQueue # <<>> /\ Head(requestQueue) = id
       THEN [NoRequest EXCEPT !.state = "rejected", !.reason = reason]
       ELSE requests[id]]

\* requests after every queued entry was rejected with the given reason
RejectQueued(reason) ==
  [id \in Ids |->
     IF \E i \in 1..Len(requestQueue) : requestQueue[i] = id
       THEN [NoRequest EXCEPT !.state = "rejected", !.reason = reason]
       ELSE requests[id]]

\* clearQueue(reason)
ClearQueue(reason) ==
  /\ requests' = RejectQueued(reason)
  /\ requestQueue' = <<>>
  /\ StopQueueProcessing
  /\ UNCHANGED <<config, responseTimeHistory, connectionQuality, activeTimeouts,
                 timeoutWarnings, warningTimer, actualTimer, progressInterval,
                 aborted, stats, nextId, recorded>>
  /\ UNCHANGED otherThanManager

\* resetQualityTracking()
ResetQualityTracking ==
  /\ responseTimeHistory' = <<>>
  /\ connectionQuality' = "unknown"
  /\ recorded' = <<>>
  /\ UNCHANGED <<config, requestQueue, isProcessingQueue, queueProcessor, drainIntervals,
                 activeTimeouts, timeoutWarnings, warningTimer, actualTimer,
                 progressInterval, aborted, stats, requests, nextId>>
  /\ UNCHANGED otherThanManager

\* cleanup(): stopQueueProcessing, clearQueue('Service shutting down'),
\* cleanupTimeouts for every key of activeTimeouts, resetQualityTracking
CleanupManager ==
  /\ requests' = RejectQueued("shutdown")
  /\ requestQueue' = <<>>
  /\ StopQueueProcessing
  /\ warningTimer' = warningTimer \ activeTimeouts
  /\ actualTimer' = actualTimer \ activeTimeouts
  /\ timeoutWarnings' = timeoutWarnings \ activeTimeouts
  /\ activeTimeouts' = {}
  /\ responseTimeHistory' = <<>>
  /\ connectionQuality' = "unknown"
  /\ recorded' = <<>>
  /\ UNCHANGED <<config, progressInterval, aborted, stats, nextId>>

\* cleanup() called by the owner of the manager
Cleanup ==
  /\ CleanupManager
  /\ UNCHANGED otherThanManager

(***************************************************************************)
(* RetryHandler                                                            *)
(***************************************************************************)
\* error.type of the OllamaConnectionError instances the classifier builds
Categories == {"timeout", "network", "cors", "auth", "model", "server", "connection"}

\* errorType arguments of calculateDelay: a category, or 'unknown' for an
\* error that is not an OllamaConnectionError
ErrorTypes == Categories \cup {"unknown"}

NoError ==
  [classified |-> FALSE, type |-> "undefined", id |-> 0, message |-> "none"]

\* the errors an operation can throw at its n-th invocation: an
\* OllamaConnectionError of some category, or a plain Error
ThrownErrors(n) ==
  [classified : {TRUE}, type : Categories, id : {n}, message : {"operation"}]
    \cup {[classified |-> FALSE, type |-> "unknown", id |-> n, message |-> "operation"]}

\* ShouldRetry with > for >= in the attempt test
ShouldRetryOffByOne(error, n, max) ==
  IF n > max THEN FALSE
  ELSE IF error.classified
    THEN IF error.type \in {"model", "cors", "auth"} THEN FALSE
         ELSE error.type \in {"network", "timeout", "connection", "server"}
  ELSE TRUE

\* ShouldRetry without the list of categories that are never retried
ShouldRetryAnyCategory(error, n, max) ==
  IF n >= max THEN FALSE ELSE TRUE

\* shouldRetry(error, attempt)
ShouldRetry(error, n, max) ==
  IF n >= max THEN FALSE
  ELSE IF error.classified
    THEN IF error.type \in {"model", "cors", "auth"} THEN FALSE
         ELSE error.type \in {"network", "timeout", "connection", "server"}
  ELSE TRUE

\* calculateDelay: the base delay of an error type
BaseDelay(errorType) ==
  CASE errorType = "timeout" -> TimeoutBaseDelay
    [] errorType = "network" -> NetworkBaseDelay
    [] errorType = "server" -> ServerBaseDelay
    [] OTHER -> DefaultBaseDelay

RECURSIVE Pow2(_)
Pow2(n) == IF n <= 0 THEN 1 ELSE 2 * Pow2(n - 1)

Min(a, b) == IF a < b THEN a ELSE b

\* calculateDelay: Math.min(baseDelay * Math.pow(2, attempt - 1), 15000)
ExponentialDelay(n, errorType) ==
  Min(BaseDelay(errorType) * Pow2(n - 1), DelayCap)

\* CalculateDelay with the jitter subtracted
CalculateDelaySubtractsJitter(n, errorType, r) ==
  LET exponentialDelay == ExponentialDelay(n, errorType)
      jitter == (r * exponentialDelay) \div (JitterDivisor * JitterSteps)
  IN exponentialDelay - jitter

\* calculateDelay(attempt, errorType) when Math.random() returns r / JitterSteps
CalculateDelay(n, errorType, r) ==
  LET exponentialDelay == ExponentialDelay(n, errorType)
      jitter == (r * exponentialDelay) \div (JitterDivisor * JitterSteps)
  IN exponentialDelay + jitter

\* errorType computed by executeWithRetry
ErrorTypeOf(error) == IF error.classified THEN error.type ELSE "unknown"

\* executeWithRetry after the for loop: the error thrown on exhaustion
ExhaustedError(error) ==
  IF error.classified
    THEN [classified |-> TRUE, type |-> error.type, id |-> 0,
          message |-> "retryExhausted"]
    ELSE error

\* executeWithRetry is called: the loop is entered, or skipped when
\* maxRetries < 1
BeginExecuteWithRetry ==
  /\ pc = "idle"
  /\ attempt' = 1
  /\ IF 1 <= maxRetries
       THEN /\ pc' = "call"
            /\ calls' = calls + 1
            /\ UNCHANGED raised
       ELSE /\ pc' = "threw"
            /\ raised' = ExhaustedError(lastError)
            /\ UNCHANGED calls
  /\ UNCHANGED <<maxRetries, lastError, delays, currentDelay, policyCall>>
  /\ UNCHANGED otherThanRetry

\* the awaited operation() resolves: executeWithRetry returns its value
OperationReturns ==
  /\ pc = "call"
  /\ pc' = "returned"
  /\ UNCHANGED <<maxRetries, attempt, lastError, raised, calls, delays,
                 currentDelay, policyCall>>
  /\ UNCHANGED otherThanRetry

\* the awaited operation() rejects with e: the catch block
OperationThrows(e, r) ==
  /\ pc = "call"
  /\ lastError' = e
  /\ IF ~ShouldRetry(e, attempt, maxRetries)
       THEN /\ raised' = e
            /\ pc' = "threw"
            /\ UNCHANGED <<delays, currentDelay>>
       ELSE /\ currentDelay' = CalculateDelay(attempt, ErrorTypeOf(e), r)
            /\ delays' = delays + 1
            /\ pc' = "delay"
            /\ UNCHANGED raised
  /\ UNCHANGED <<maxRetries, attempt, calls, policyCall>>
  /\ UNCHANGED otherThanRetry

\* the backoff timer fires: attempt++, then the loop test
BackoffElapses ==
  /\ pc = "delay"
  /\ attempt' = attempt + 1
  /\ currentDelay' = 0
  /\ IF attempt + 1 <= maxRetries
       THEN /\ pc' = "call"
            /\ calls' = calls + 1
            /\ UNCHANGED raised
       ELSE /\ pc' = "threw"
            /\ raised' = ExhaustedError(lastError)
            /\ UNCHANGED calls
  /\ UNCHANGED <<maxRetries, lastError, delays, policyCall>>
  /\ UNCHANGED otherThanRetry

\* retryHandler.shouldRetry(e, n) called directly
CallShouldRetry(e, n) ==
  /\ policyCall' = [method |-> "shouldRetry", error |-> e, attempt |-> n,
                    result |-> ShouldRetry(e, n, maxRetries)]
  /\ UNCHANGED <<maxRetries, pc, attempt, lastError, raised, calls, delays,
                 currentDelay>>
  /\ UNCHANGED otherThanRetry

\* retryHandler.calculateDelay(n, type) followed by calculateDelay(n + 1, type),
\* Math.random() returning r1 / JitterSteps, then r2 / JitterSteps
CallCalculateDelay(n, errorType, r1, r2) ==
  /\ policyCall' = [method |-> "calculateDelay", errorType |-> errorType,
                    attempt |-> n,
                    delay |-> CalculateDelay(n, errorType, r1),
                    nextDelay |-> CalculateDelay(n + 1, errorType, r2)]
  /\ UNCHANGED <<maxRetries, pc, attempt, lastError, raised, calls, delays,
                 currentDelay>>
  /\ UNCHANGED otherThanRetry

(***************************************************************************)
(* Error classifier of OllamaService                                       *)
(***************************************************************************)
\* HTTP statuses of a response that is not ok
HttpStatuses == {400, 401, 403, 404, 429, 500, 502, 503, 504}

\* error.name of a raw failure; a TypeError is what fetch rejects with
ErrorNames == {"AbortError", "TypeError", "Error"}

\* config.corsMode
CorsModes == {"cors", "no-cors"}

\* A raw failure is its name and, for each group of substrings the classifier
\* looks for with message.includes, whether the message holds one of them:
\*   cors          'CORS', 'Cross-Origin', 'cors'
\*   failedToFetch 'Failed to fetch'
\*   fetch         'fetch'
\*   networkError  'NetworkError'
\*   refused       'refused', 'ECONNREFUSED'
\*   dns           'ENOTFOUND', 'getaddrinfo', 'DNS'
\*   ssl           'SSL', 'TLS', 'certificate'
\*   opaque        'opaque', 'Response'
RawError(name, cors, failedToFetch, fetch, networkError, refused, dns, ssl, opaque) ==
  [name |-> name, cors |-> cors, failedToFetch |-> failedToFetch, fetch |-> fetch,
   networkError |-> networkError, refused |-> refused, dns |-> dns, ssl |-> ssl,
   opaque |-> opaque]

\* categorizeHttpError(status, statusText) on a service whose target is remote
\* or not
CategorizeHttpError(status, isRemote) ==
  IF status = 404
    THEN [errorType |-> "model", errorMessage |-> "modelNotFound"]
  ELSE IF status = 401
    THEN [errorType |-> "auth", errorMessage |-> "authenticationFailed"]
  ELSE IF status = 403
    THEN [errorType |-> "auth", errorMessage |-> "accessDenied"]
  ELSE IF status \in {500, 502, 503}
    THEN [errorType |-> "server",
          errorMessage |-> IF isRemote THEN "remoteServiceUnavailable"
                           ELSE "serviceOffline"]
  ELSE IF status = 504
    THEN [errorType |-> "timeout",
          errorMessage |-> IF isRemote THEN "remoteTimeout" ELSE "timeout"]
  ELSE [errorType |-> "connection",
        errorMessage |-> IF isRemote THEN "remoteServiceUnavailable"
                         ELSE "connectionError"]

\* isCorsError(error)
IsCorsError(error, isRemote, corsMode) ==
  \/ error.cors
  \/ error.failedToFetch /\ isRemote
  \/ error.name = "TypeError" /\ error.fetch /\ corsMode = "cors"
  \/ error.opaque

\* categorizeConnectionError(error); proxied is
\* networkConfig.useProxy && networkConfig.corsProxy
CategorizeConnectionError(error, isRemote, corsMode, proxied) ==
  IF error.name = "AbortError"
    THEN [errorType |-> "timeout",
          errorMessage |-> IF isRemote THEN "remoteTimeout" ELSE "timeout"]
  ELSE IF IsCorsError(error, isRemote, corsMode)
    THEN [errorType |-> "cors",
          errorMessage |-> IF proxied THEN "corsWithProxy"
                           ELSE IF isRemote THEN "corsRemoteOrigins"
                           ELSE "corsError"]
  ELSE IF error.fetch \/ error.networkError \/ error.failedToFetch
    THEN IF isRemote
           THEN IF error.refused
                  THEN [errorType |-> "connection",
                        errorMessage |-> "remoteConnectionRefused"]
                  ELSE [errorType |-> "network",
                        errorMessage |-> "remoteServiceUnavailable"]
           ELSE [errorType |-> "connection",
                 errorMessage |-> "localServiceNotRunning"]
  ELSE IF error.refused
    THEN [errorType |-> "connection",
          errorMessage |-> IF isRemote THEN "remoteConnectionRefused"
                           ELSE "localServiceNotRunning"]
  ELSE IF error.dns
    THEN [errorType |-> "network",
          errorMessage |-> IF isRemote THEN "remoteServiceUnavailable"
                           ELSE "localConnectionFailed"]
  ELSE IF error.ssl
    THEN [errorType |-> "network", errorMessage |-> "sslError"]
  ELSE [errorType |-> "connection",
        errorMessage |-> IF isRemote THEN "remoteServiceUnavailable"
                         ELSE "connectionError"]

\* the OllamaConnectionError built from a classification, as shouldRetry reads it
ClassifiedError(result) ==
  [classified |-> TRUE, type |-> result.errorType, id |-> 0,
   message |-> result.errorMessage]

\* no failure is being classified
NoClassification == [method |-> "none"]

\* categorizeHttpError(status) on a service with a local target and on one
\* with a remote target, and what shouldRetry says of each at the first attempt
CategorizeHttpErrorCall ==
  /\ classification.method = "httpFailure"
  /\ LET status == classification.status
         local == CategorizeHttpError(status, FALSE)
         remote == CategorizeHttpError(status, TRUE)
     IN classification' =
          [method |-> "categorizeHttpError", status |-> status,
           local |-> local, remote |-> remote,
           retryLocal |-> ShouldRetry(ClassifiedError(local), 1, maxRetries),
           retryRemote |-> ShouldRetry(ClassifiedError(remote), 1, maxRetries)]
  /\ UNCHANGED otherThanClassifier

\* categorizeConnectionError(error) on a service with a local target and on
\* one with a remote target, and what shouldRetry says of each at the first
\* attempt
CategorizeConnectionErrorCall ==
  /\ classification.method = "connectionFailure"
  /\ LET error == classification.error
         corsMode == classification.corsMode
         proxied == classification.proxied
         local == CategorizeConnectionError(error, FALSE, corsMode, proxied)
         remote == CategorizeConnectionError(error, TRUE, corsMode, proxied)
     IN classification' =
          [method |-> "categorizeConnectionError", error |-> error,
           corsMode |-> corsMode, proxied |-> proxied,
           local |-> local, remote |-> remote,
           retryLocal |-> ShouldRetry(ClassifiedError(local), 1, maxRetries),
           retryRemote |-> ShouldRetry(ClassifiedError(remote), 1, maxRetries)]
  /\ UNCHANGED otherThanClassifier

(***************************************************************************)
(* CorsProxyService                                                        *)
(***************************************************************************)
\* a production build without proxy settings: the only strategy is 'direct'
DirectOnlyConfig == [useProxy |-> FALSE, corsProxy |-> FALSE, production |-> TRUE]

\* determineProxyStrategies()
DetermineProxyStrategies(cfg) ==
  LET direct == IF ~cfg.useProxy THEN <<"direct">> ELSE <<>>
      custom == IF cfg.corsProxy THEN <<"custom">> ELSE <<>>
      public == IF ~cfg.production /\ ~cfg.corsProxy THEN <<"public">> ELSE <<>>
      forced == IF cfg.useProxy /\ ~cfg.corsProxy THEN <<"direct">> ELSE <<>>
      strategies == direct \o custom \o public \o forced
  IN IF Len(strategies) > 0 THEN strategies ELSE <<"direct">>

\* StrategyAt walking the list from its end
StrategyAtReversed(strategies, i) == strategies[Len(strategies) + 1 - i]

\* for (const strategy of this.proxyStrategies): the strategy of the i-th round
StrategyAt(strategies, i) == strategies[i]

\* executeStrategy(strategy): the strategy is refused before any request
ConfigError(strategy, cfg) ==
  \/ strategy = "custom" /\ ~cfg.corsProxy
  \/ strategy = "public" /\ cfg.production
  \/ strategy \notin {"direct", "custom", "public"}

\* error.message of what executeStrategy(strategy) can throw
FailureMessages(strategy, cfg) ==
  IF strategy = "direct"
    THEN {"Direct request timeout", "CORS error in direct request",
          "Direct request failed"}
  ELSE IF strategy = "custom"
    THEN IF ~cfg.corsProxy THEN {"Custom proxy not configured"}
         ELSE {"Custom proxy timeout", "Custom proxy request failed"}
  ELSE IF strategy = "public"
    THEN IF cfg.production THEN {"Public proxies disabled in production"}
         ELSE {"All 3 public proxies failed"}
  ELSE {"Unknown proxy strategy"}

\* no CorsProxyError
NoProxyError == [type |-> "none", lastMessage |-> "none", originalError |-> <<>>]

\* AggregateError naming the first collected failure in its message
AggregateErrorFirstMessage(errors) ==
  [type |-> "proxy", lastMessage |-> errors[1].message, originalError |-> errors]

\* new CorsProxyError(`All CORS proxy strategies failed. Last error: ...`,
\* 'proxy', errors): the message holds errors[errors.length - 1].error.message
\* and no other failure message; the list is the third argument
AggregateError(errors) ==
  [type |-> "proxy", lastMessage |-> errors[Len(errors)].message,
   originalError |-> errors]

\* makeRequest(url, options) from its entry to its first await
EnterMakeRequest ==
  /\ proxyCalls' = proxyCalls + 1
  /\ proxyErrors' = <<>>
  /\ proxyReturned' = "none"
  /\ proxyThrown' = NoProxyError
  /\ proxyIndex' = 1
  /\ proxyAttempts' = <<StrategyAt(proxyStrategies, 1)>>
  /\ proxyPc' = "awaiting"
  /\ UNCHANGED <<proxyConfig, proxyStrategies>>

\* makeRequest(url, options) is called on the proxy service
BeginMakeRequest ==
  /\ proxyPc \in {"idle", "returned", "threw"}
  /\ proxyCalls < MaxProxyCalls
  /\ EnterMakeRequest
  /\ UNCHANGED otherThanProxy

\* the awaited executeStrategy resolves: makeRequest returns its response
StrategySucceeds ==
  /\ proxyPc = "awaiting"
  /\ ~ConfigError(StrategyAt(proxyStrategies, proxyIndex), proxyConfig)
  /\ proxyReturned' = StrategyAt(proxyStrategies, proxyIndex)
  /\ proxyPc' = "returned"
  /\ UNCHANGED <<proxyConfig, proxyStrategies, proxyIndex, proxyAttempts,
                 proxyErrors, proxyThrown, proxyCalls>>
  /\ UNCHANGED otherThanProxy

\* the awaited executeStrategy rejects: the error is collected and the loop
\* goes on to the next strategy, or throws when there is none
StrategyFails(message) ==
  /\ proxyPc = "awaiting"
  /\ message \in FailureMessages(StrategyAt(proxyStrategies, proxyIndex), proxyConfig)
  /\ proxyErrors' = Append(proxyErrors,
                           [strategy |-> StrategyAt(proxyStrategies, proxyIndex),
                            message |-> message])
  /\ IF proxyIndex < Len(proxyStrategies)
       THEN /\ proxyIndex' = proxyIndex + 1
            /\ proxyAttempts' =
                 Append(proxyAttempts, StrategyAt(proxyStrategies, proxyIndex + 1))
            /\ UNCHANGED <<proxyPc, proxyThrown>>
       ELSE /\ proxyPc' = "threw"
            /\ proxyThrown' = AggregateError(proxyErrors')
            /\ UNCHANGED <<proxyIndex, proxyAttempts>>
  /\ UNCHANGED <<proxyConfig, proxyStrategies, proxyReturned, proxyCalls>>
  /\ UNCHANGED otherThanProxy

\* the messages any strategy can fail with
AllFailureMessages ==
  {"Direct request timeout", "CORS error in direct request",
   "Direct request failed", "Custom proxy not configured",
   "Custom proxy timeout", "Custom proxy request failed",
   "Public proxies disabled in production", "All 3 public proxies failed",
   "Unknown proxy strategy"}

\* new CorsProxyService(cfg)
InitProxyService(cfg) ==
  /\ proxyConfig = cfg
  /\ proxyStrategies = DetermineProxyStrategies(cfg)
  /\ proxyPc = "idle"
  /\ proxyIndex = 0
  /\ proxyAttempts = <<>>
  /\ proxyErrors = <<>>
  /\ proxyReturned = "none"
  /\ proxyThrown = NoProxyError
  /\ proxyCalls = 0

(***************************************************************************)
(* OllamaService                                                           *)
(***************************************************************************)
\* a service whose config.baseUrl is a local host, with corsMode 'cors'
LocalTarget == [isRemote |-> FALSE, corsMode |-> "cors"]

\* no raw error
NoRawError ==
  RawError("none", FALSE, FALSE, FALSE, FALSE, FALSE, FALSE, FALSE, FALSE)

\* no error: the fields are whether it is an OllamaConnectionError, its type,
\* the HTTP status it stands for (0: none) and what its name and message hold
NoServiceError ==
  [classified |-> FALSE, type |-> "none", status |-> 0, raw |-> NoRawError]

\* new Error(`HTTP ${response.status}: ${response.statusText}`)
HttpFailure(status) ==
  RawError("Error", FALSE, FALSE, FALSE, FALSE, FALSE, FALSE, FALSE, FALSE)

\* an error as it was thrown, neither wrapped nor classified
Unclassified(status, error) ==
  [classified |-> FALSE, type |-> "none", status |-> status, raw |-> error]

\* new OllamaConnectionError(`Direct request failed due to CORS
\* (${error.message}), and proxy fallback also failed (...)`, 'cors', error)
CorsFallbackError(status, error) ==
  [classified |-> TRUE, type |-> "cors", status |-> status,
   raw |-> RawError("OllamaConnectionError", TRUE, error.failedToFetch,
                    error.fetch, error.networkError, error.refused, error.dns,
                    error.ssl, error.opaque)]

\* the CorsProxyError 'All CORS proxy strategies failed. Last error: ...'
\* of the given type, as the service's classifier reads it
ChainError(type) ==
  [classified |-> FALSE, type |-> type, status |-> 0,
   raw |-> RawError("CorsProxyError", TRUE, FALSE, FALSE, FALSE, FALSE, FALSE,
                    FALSE, FALSE)]

\* EscalatesToProxy whatever the target and the proxy settings
EscalatesOnAnyCorsError(error, cfg, network) ==
  IsCorsError(error, cfg.isRemote, cfg.corsMode)

\* makeRequest's catch: this.isCorsError(error) && isRemote &&
\* this.networkConfig.corsProxy
EscalatesToProxy(error, cfg, network) ==
  /\ IsCorsError(error, cfg.isRemote, cfg.corsMode)
  /\ cfg.isRemote
  /\ network.corsProxy

\* the catch block of makeRequest for a direct failure
CatchDirectFailure(status, error) ==
  /\ requestError' = Unclassified(status, error)
  /\ IF EscalatesToProxy(error, serviceConfig, proxyConfig)
       THEN /\ EnterMakeRequest
            /\ requestChainCalls' = requestChainCalls + 1
            /\ requestPc' = "fallback"
            /\ UNCHANGED requestThrown
       ELSE /\ requestPc' = "threw"
            /\ requestThrown' = Unclassified(status, error)
            /\ UNCHANGED <<proxyVars, requestChainCalls>>
  /\ UNCHANGED <<serviceConfig, connectionStatus, operations>>
  /\ UNCHANGED otherThanService

\* makeRequest(endpoint, options) up to its first await: the proxy service
\* when networkConfig.useProxy, the direct fetch otherwise
ServiceMakeRequest ==
  /\ requestPc = "idle"
  /\ IF proxyConfig.useProxy
       THEN /\ EnterMakeRequest
            /\ requestChainCalls' = requestChainCalls + 1
            /\ requestPc' = "forced"
       ELSE /\ requestPc' = "direct"
            /\ UNCHANGED <<proxyVars, requestChainCalls>>
  /\ UNCHANGED <<serviceConfig, connectionStatus, requestError, requestThrown,
                 operations>>
  /\ UNCHANGED otherThanService

\* the direct fetch resolves with a response that is ok
DirectFetchResolvesOk ==
  /\ requestPc = "direct"
  /\ requestPc' = "returned"
  /\ UNCHANGED <<serviceConfig, connectionStatus, requestError,
                 requestChainCalls, requestThrown, proxyVars, operations>>
  /\ UNCHANGED otherThanService

\* the direct fetch resolves with a response that is not ok: the Error thrown
\* inside the try block reaches the catch block
DirectFetchResolvesNotOk(status) ==
  /\ requestPc = "direct"
  /\ CatchDirectFailure(status, HttpFailure(status))

\* the direct fetch rejects
DirectFetchRejects(name, cors, failedToFetch, fetch, networkError, refused, dns, ssl, opaque) ==
  /\ requestPc = "direct"
  /\ failedToFetch => fetch     \* 'Failed to fetch' includes 'fetch'
  /\ CatchDirectFailure(0, RawError(name, cors, failedToFetch, fetch,
                                    networkError, refused, dns, ssl, opaque))

\* the awaited corsProxyService.makeRequest resolves
ChainReturns ==
  /\ requestPc \in {"forced", "fallback"}
  /\ proxyPc = "returned"
  /\ requestPc' = "returned"
  /\ UNCHANGED <<serviceConfig, connectionStatus, requestError,
                 requestChainCalls, requestThrown, proxyVars, operations>>
  /\ UNCHANGED otherThanService

\* the awaited corsProxyService.makeRequest rejects: the forced path lets the
\* CorsProxyError through, the fallback path wraps the direct failure
ChainThrows ==
  /\ requestPc \in {"forced", "fallback"}
  /\ proxyPc = "threw"
  /\ requestPc' = "threw"
  /\ requestThrown' = IF requestPc = "forced" THEN ChainError(proxyThrown.type)
                      ELSE CorsFallbackError(requestError.status, requestError.raw)
  /\ UNCHANGED <<serviceConfig, connectionStatus, requestError,
                 requestChainCalls, proxyVars, operations>>
  /\ UNCHANGED otherThanService

OperationIds == 1..MaxOperations

\* a call that has not been made
NoOperation == [kind |-> "none", pc |-> "idle", thrown |-> NoServiceError]

\* HTTP statuses a probe is answered with
ProbeStatuses == {404, 401, 503}

\* ways the fetch of a request rejects
FailureKinds == {"abort", "failedToFetch", "refused", "dns", "corsText", "other"}

\* the error of each way: its name and what its message includes
FetchFailure(kind) ==
  RawError(IF kind = "abort" THEN "AbortError"
           ELSE IF kind = "failedToFetch" THEN "TypeError" ELSE "Error",
           kind = "corsText", kind = "failedToFetch", kind = "failedToFetch",
           FALSE, kind = "refused", kind = "dns", FALSE, FALSE)

\* what makeRequest throws when the direct request fails with error (with
\* status, when it is a response that is not ok) and every proxy strategy
\* it turns to fails as well
MakeRequestError(status, error, cfg, network) ==
  IF network.useProxy THEN ChainError("proxy")
  ELSE IF EscalatesToProxy(error, cfg, network)
    THEN CorsFallbackError(status, error)
  ELSE Unclassified(status, error)

\* the catch block of checkConnection and of _sendMessageInternal:
\* new OllamaConnectionError(errorMessage, errorType, error) from
\* categorizeConnectionError(error)
Categorized(error, cfg, network) ==
  [classified |-> TRUE,
   type |-> CategorizeConnectionError(error.raw, cfg.isRemote, cfg.corsMode,
                                      network.useProxy /\ network.corsProxy).errorType,
   status |-> error.status, raw |-> error.raw]

\* the connectionStatus a failed probe leaves
ErrorStatus(error, cfg, network) ==
  [status |-> "error",
   error |-> CategorizeConnectionError(error.raw, cfg.isRemote, cfg.corsMode,
                                       network.useProxy /\ network.corsProxy).errorMessage]

\* new OllamaConnectionError(message, type) without an original error
OllamaConnectionError(type) ==
  [classified |-> TRUE, type |-> type, status |-> 0, raw |-> NoRawError]

\* checkConnection() up to its await of makeRequest
CheckConnectionEntry(op, kind) ==
  /\ connectionStatus' = [connectionStatus EXCEPT !.status = "connecting"]
  /\ operations' = [operations EXCEPT ![op] =
                      [kind |-> kind, pc |-> "probing", thrown |-> NoServiceError]]

\* checkConnection() is called by the health interval, the initial health
\* check or a caller
CheckConnection(op) ==
  /\ operations[op].kind = "none"
  /\ CheckConnectionEntry(op, "probe")
  /\ UNCHANGED <<serviceConfig, requestPc, requestError, requestChainCalls,
                 requestThrown, proxyVars>>
  /\ UNCHANGED otherThanService

\* _sendMessageInternal(message, conversationHistory, signal) up to its first
\* await: checkConnection unless the status is 'connected', makeRequest else
SendMessageInternal(op) ==
  /\ operations[op].kind = "none"
  /\ IF connectionStatus.status # "connected"
       THEN CheckConnectionEntry(op, "send")
       ELSE /\ operations' = [operations EXCEPT ![op] =
                                [kind |-> "send", pc |-> "sending",
                                 thrown |-> NoServiceError]]
            /\ UNCHANGED connectionStatus
  /\ UNCHANGED <<serviceConfig, requestPc, requestError, requestChainCalls,
                 requestThrown, proxyVars>>
  /\ UNCHANGED otherThanService

\* the makeRequest awaited by checkConnection resolves (its response is ok:
\* makeRequest throws otherwise) and response.json() resolves; a send goes on
\* to its own makeRequest
ProbeSucceeds(op) ==
  /\ operations[op].pc = "probing"
  /\ connectionStatus' = [status |-> "connected", error |-> "null"]
  /\ operations' = [operations EXCEPT ![op].pc =
                      IF operations[op].kind = "send" THEN "sending" ELSE "returned"]
  /\ UNCHANGED <<serviceConfig, requestPc, requestError, requestChainCalls,
                 requestThrown, proxyVars>>
  /\ UNCHANGED otherThanService

\* the makeRequest awaited by checkConnection rejects: the catch block sets
\* the status and throws; a send lets that error through
ProbeFails(op, status, kind) ==
  /\ operations[op].pc = "probing"
  /\ LET error == MakeRequestError(status,
                                   IF status = 0 THEN FetchFailure(kind)
                                   ELSE HttpFailure(status),
                                   serviceConfig, proxyConfig)
     IN /\ connectionStatus' = ErrorStatus(error, serviceConfig, proxyConfig)
        /\ operations' = [operations EXCEPT
                            ![op].pc = "threw",
                            ![op].thrown = Categorized(error, serviceConfig, proxyConfig)]
  /\ UNCHANGED <<serviceConfig, requestPc, requestError, requestChainCalls,
                 requestThrown, proxyVars>>
  /\ UNCHANGED otherThanService

\* the makeRequest awaited by _sendMessageInternal resolves and so does
\* response.json(): data.response is returned, or is missing
SendSucceeds(op, hasResponse) ==
  /\ operations[op].pc = "sending"
  /\ operations' = [operations EXCEPT
                      ![op].pc = IF hasResponse THEN "returned" ELSE "threw",
                      ![op].thrown = IF hasResponse THEN NoServiceError
                                     ELSE OllamaConnectionError("connection")]
  /\ UNCHANGED <<serviceConfig, connectionStatus, requestPc, requestError,
                 requestChainCalls, requestThrown, proxyVars>>
  /\ UNCHANGED otherThanService

\* the makeRequest awaited by _sendMessageInternal rejects: an
\* OllamaConnectionError is thrown on, anything else is categorized
SendFails(op, status, kind) ==
  /\ operations[op].pc = "sending"
  /\ LET error == MakeRequestError(status,
                                   IF status = 0 THEN FetchFailure(kind)
                                   ELSE HttpFailure(status),
                                   serviceConfig, proxyConfig)
     IN operations' = [operations EXCEPT
                         ![op].pc = "threw",
                         ![op].thrown = IF error.classified THEN error
                                        ELSE Categorized(error, serviceConfig,
                                                         proxyConfig)]
  /\ UNCHANGED <<serviceConfig, connectionStatus, requestPc, requestError,
                 requestChainCalls, requestThrown, proxyVars>>
  /\ UNCHANGED otherThanService

\* new OllamaService() on a given target
InitOllamaService(cfg) ==
  /\ serviceConfig = cfg
  /\ connectionStatus = [status |-> "disconnected", error |-> "null"]
  /\ requestPc = "idle"
  /\ requestError = NoServiceError
  /\ requestChainCalls = 0
  /\ requestThrown = NoServiceError
  /\ operations = [op \in OperationIds |-> NoOperation]

\* data.response of a streamed object: absent or empty, or a piece of text
Fragments == {<<>>, <<"a">>, <<"b">>}

\* how the bytes of an object's line fall into the chunks reader.read()
\* delivers: in a chunk that begins with it, in the chunk of the line before
\* it, or cut in two by the end of a chunk
Layouts == {"own", "joined", "split"}

\* the streamed responses: up to MaxObjects objects, each with its layout
StreamItems ==
  UNION {[1..n -> [response : Fragments, done : BOOLEAN, layout : Layouts]] :
           n \in 0..MaxObjects}

\* a line of chunk.split('\n'): the whole text of an object, or the head or
\* the tail of one that a chunk boundary cuts
Line(item, part) ==
  [response |-> item.response, done |-> item.done, part |-> part]

\* the chunks that deliver the first n objects: a sequence of sequences of lines
RECURSIVE ChunksUpTo(_, _)
ChunksUpTo(items, n) ==
  IF n = 0 THEN <<>>
  ELSE LET before == ChunksUpTo(items, n - 1)
           item == items[n]
       IN IF Len(before) = 0
            THEN IF item.layout = "split"
                   THEN <<<<Line(item, "head")>>, <<Line(item, "tail")>>>>
                   ELSE <<<<Line(item, "whole")>>>>
          ELSE IF item.layout = "own"
            THEN Append(before, <<Line(item, "whole")>>)
          ELSE IF item.layout = "joined"
            THEN [before EXCEPT ![Len(before)] = Append(@, Line(item, "whole"))]
          ELSE Append([before EXCEPT ![Len(before)] = Append(@, Line(item, "head"))],
                      <<Line(item, "tail")>>)

\* the for loop over the lines of one chunk, from line i on: JSON.parse
\* throws on a line that is not a whole object and the line is skipped; a
\* non-empty data.response is appended and passed to onChunk; data.done ends
\* the loop and the send
RECURSIVE ProcessLines(_, _, _, _)
ProcessLines(lines, i, full, onChunk) ==
  IF i > Len(lines) THEN [full |-> full, calls |-> onChunk, done |-> FALSE]
  ELSE IF lines[i].part # "whole" THEN ProcessLines(lines, i + 1, full, onChunk)
  ELSE LET text == IF lines[i].response # <<>> THEN full \o lines[i].response
                   ELSE full
           told == IF lines[i].response # <<>>
                     THEN Append(onChunk, [chunk |-> lines[i].response, full |-> text])
                     ELSE onChunk
       IN IF lines[i].done THEN [full |-> text, calls |-> told, done |-> TRUE]
          ELSE ProcessLines(lines, i + 1, text, told)

\* response.body.getReader(): the read loop is entered
BeginReadLoop ==
  /\ streamPc = "idle"
  /\ streamPc' = "reading"
  /\ fullResponse' = <<>>
  /\ UNCHANGED <<objects, stream, streamReads, delivered, streamReturned,
                 streamAttempt>>
  /\ UNCHANGED otherThanStream

\* await reader.read() resolves: with done at the end of the stream, with the
\* next chunk otherwise
ReadChunk ==
  /\ streamPc = "reading"
  /\ streamReads' = streamReads + 1
  /\ IF streamReads = Len(stream)
       THEN /\ streamPc' = "returned"
            /\ streamReturned' = fullResponse
            /\ UNCHANGED <<fullResponse, delivered>>
       ELSE LET after == ProcessLines(stream[streamReads + 1], 1, fullResponse,
                                      delivered)
            IN /\ fullResponse' = after.full
               /\ delivered' = after.calls
               /\ streamPc' = IF after.done THEN "returned" ELSE "reading"
               /\ streamReturned' = IF after.done THEN after.full ELSE streamReturned
  /\ UNCHANGED <<objects, stream, streamAttempt>>
  /\ UNCHANGED otherThanStream

\* await reader.read() rejects in the middle of the stream: the catch block of
\* _sendMessageStreamInternal throws an OllamaConnectionError e, and the catch
\* block of executeWithRetry throws it on or starts the backoff wait
ReadFails(e) ==
  /\ streamPc = "reading"
  /\ streamPc' = IF ShouldRetry(e, streamAttempt, maxRetries) THEN "delay" ELSE "threw"
  /\ UNCHANGED <<objects, stream, streamReads, fullResponse, delivered,
                 streamReturned, streamAttempt>>
  /\ UNCHANGED otherThanStream

\* the backoff timer of the streaming send fires: attempt++, the loop test,
\* and operation() again, which reads the response from its first chunk into
\* a fresh fullResponse and calls the same onChunk
StreamBackoffElapses ==
  /\ streamPc = "delay"
  /\ streamAttempt' = streamAttempt + 1
  /\ IF streamAttempt + 1 <= maxRetries
       THEN /\ streamPc' = "reading"
            /\ streamReads' = 0
            /\ fullResponse' = <<>>
       ELSE /\ streamPc' = "threw"
            /\ UNCHANGED <<streamReads, fullResponse>>
  /\ UNCHANGED <<objects, stream, delivered, streamReturned>>
  /\ UNCHANGED otherThanStream

\* the response of a streaming send: its objects and the chunks they come in
InitStreamReader(items) ==
  /\ objects = [i \in 1..Len(items) |->
                  [response |-> items[i].response, done |-> items[i].done]]
  /\ stream = ChunksUpTo(items, Len(items))
  /\ streamPc = "idle"
  /\ streamReads = 0
  /\ fullResponse = <<>>
  /\ delivered = <<>>
  /\ streamReturned = <<>>
  /\ streamAttempt = 1

\* no sendMessageWithFallback call
NoFallback == [result |-> "none", caught |-> NoError, thrown |-> NoError]

\* the error types sendMessageWithFallback answers with a fallback response
ConnectionClass == {"connection", "network", "timeout"}

\* the catch block of sendMessageWithFallback: error.message is read first,
\* which throws a TypeError when the rejection value is undefined; an
\* OllamaConnectionError of a connection-class type gives the fallback
\* response; anything else is thrown again
CatchSendFailure(error) ==
  fallback' =
    IF error.type = "undefined"
      THEN [result |-> "threw", caught |-> error,
            thrown |-> [classified |-> FALSE, type |-> "unknown", id |-> error.id,
                        message |-> "typeError"]]
    ELSE IF error.classified /\ error.type \in ConnectionClass
      THEN [result |-> "canned", caught |-> error, thrown |-> NoError]
    ELSE [result |-> "threw", caught |-> error, thrown |-> error]

\* sendMessageWithFallback: the awaited sendMessage resolves
FallbackSendReturns ==
  /\ pc = "returned"
  /\ fallback.result = "none"
  /\ fallback' = [fallback EXCEPT !.result = "response"]
  /\ UNCHANGED otherThanFallback

\* sendMessageWithFallback: the awaited sendMessage rejects with what
\* executeWithRetry threw (the manager throws it on)
FallbackSendFails ==
  /\ pc = "threw"
  /\ fallback.result = "none"
  /\ CatchSendFailure(raised)
  /\ UNCHANGED otherThanFallback

\* sendMessageWithFallback: the awaited sendMessage rejects with the plain
\* Error of the manager for a request that never ran (queue full, removed
\* for capacity, queue cleared)
FallbackSendRejected ==
  /\ pc = "idle"
  /\ fallback.result = "none"
  /\ CatchSendFailure([classified |-> FALSE, type |-> "unknown", id |-> calls,
                       message |-> "queue"])
  /\ UNCHANGED otherThanFallback

\* what the health timers and destroy() leave alone
otherThanHealth == <<retryVars, classifierVars, streamVars, fallbackVars, monitorVars>>

\* the callback of the health interval set by startHealthMonitoring runs:
\* checkConnection()
HealthCheckFires(op) ==
  /\ healthCheckInterval
  /\ operations[op].kind = "none"
  /\ CheckConnectionEntry(op, "probe")
  /\ UNCHANGED <<serviceConfig, requestPc, requestError, requestChainCalls,
                 requestThrown, proxyVars, nrmVars, healthVars>>
  /\ UNCHANGED otherThanHealth

\* the one-second timeout set by startHealthMonitoring fires: checkConnection().
\* Its handle is not kept
InitialCheckFires(op) ==
  /\ initialCheck
  /\ initialCheck' = FALSE
  /\ operations[op].kind = "none"
  /\ CheckConnectionEntry(op, "probe")
  /\ UNCHANGED <<serviceConfig, requestPc, requestError, requestChainCalls,
                 requestThrown, proxyVars, nrmVars, healthCheckInterval, destroyed>>
  /\ UNCHANGED otherThanHealth

\* destroy(): stopHealthMonitoring clears the interval whose handle it holds
\* and calls cleanup() of the manager
Destroy ==
  /\ healthCheckInterval' = FALSE
  /\ destroyed' = TRUE
  /\ CleanupManager
  /\ UNCHANGED <<initialCheck, startCall, progressCalls, serviceVars, proxyVars>>
  /\ UNCHANGED otherThanHealth

\* new OllamaService(): healthCheckInterval > 0, so startHealthMonitoring sets
\* the interval and the timeout of the initial check
InitHealth ==
  /\ healthCheckInterval = TRUE
  /\ initialCheck = TRUE
  /\ destroyed = FALSE

\* no handleReconnect call is running
NoReconnect == [by |-> "none", status |-> "none", op |-> 0]

\* the ConnectionMonitor component as mounted
InitMonitor ==
  /\ monitorStatus = "disconnected"
  /\ isReconnecting = FALSE
  /\ reconnectAttempts = 0
  /\ reconnect = NoReconnect

\* what the ConnectionMonitor component leaves alone
otherThanMonitor == <<nrmVars, retryVars, classifierVars, streamVars, fallbackVars, healthVars>>

\* handleReconnect() up to its await: it returns at once while isReconnecting;
\* otherwise it sets isReconnecting, adds one to reconnectAttempts and calls
\* checkConnection(). connectionStatus.status is the value of the render that
\* made the callback, kept in reconnect.status
HandleReconnect(by, op) ==
  /\ ~isReconnecting
  /\ operations[op].kind = "none"
  /\ isReconnecting' = TRUE
  /\ reconnectAttempts' = reconnectAttempts + 1
  /\ reconnect' = [by |-> by, status |-> monitorStatus, op |-> op]
  /\ CheckConnectionEntry(op, "probe")
  /\ UNCHANGED <<monitorStatus, serviceConfig, requestPc, requestError,
                 requestChainCalls, requestThrown, proxyVars>>
  /\ UNCHANGED otherThanMonitor

\* the timeout set by the automatic reconnection effect fires: the effect sets
\* it only when the status is 'disconnected' or 'error', no reconnection runs
\* and reconnectAttempts < 5, and clears it when any of these changes
AutomaticReconnect(op) ==
  /\ monitorStatus \in {"disconnected", "error"}
  /\ reconnectAttempts < AutoReconnectLimit
  /\ HandleReconnect("auto", op)

\* the reconnect button is clicked: it is rendered when canReconnect
ManualReconnect(op) ==
  /\ monitorStatus \in {"disconnected", "error"}
  /\ reconnectAttempts < MaxReconnectAttempts
  /\ HandleReconnect("manual", op)

\* the checkConnection awaited by handleReconnect has settled
ContinuationPending ==
  /\ reconnect.op # 0
  /\ operations[reconnect.op].pc \in {"returned", "threw"}

\* handleReconnect after its await: updateConnectionStatus() in the try block
\* or in the catch block, setReconnectAttempts(0) in the try block when the
\* status of the callback's render is 'connected', setIsReconnecting(false)
ReconnectContinues ==
  /\ ContinuationPending
  /\ monitorStatus' = connectionStatus.status
  /\ reconnectAttempts' =
       IF operations[reconnect.op].pc = "returned" /\ reconnect.status = "connected"
       THEN 0 ELSE reconnectAttempts
  /\ isReconnecting' = FALSE
  /\ reconnect' = NoReconnect
  /\ operations' = [operations EXCEPT ![reconnect.op] = NoOperation]
  /\ UNCHANGED <<serviceConfig, connectionStatus, requestPc, requestError,
                 requestChainCalls, requestThrown, proxyVars>>
  /\ UNCHANGED otherThanMonitor

\* updateConnectionStatus() run by the effects of the component:
\* setConnectionStatus(ollamaService.getConnectionStatus())
UpdateConnectionStatus ==
  /\ monitorStatus' = connectionStatus.status
  /\ UNCHANGED <<isReconnecting, reconnectAttempts, reconnect, serviceVars, proxyVars>>
  /\ UNCHANGED otherThanMonitor

\* a service on which no streaming send and no send with fallback was made
InitSends ==
  /\ objects = <<>>
  /\ stream = <<>>
  /\ streamPc = "idle"
  /\ streamReads = 0
  /\ fullResponse = <<>>
  /\ delivered = <<>>
  /\ streamReturned = <<>>
  /\ streamAttempt = 1
  /\ fallback = NoFallback

(***************************************************************************)
(* Specifications                                                          *)
(***************************************************************************)
InitStats ==
  [totalRequests |-> 0, successfulRequests |-> 0, failedRequests |-> 0,
   timeoutRequests |-> 0, queuedRequests |-> 0]

\* new NetworkReliabilityManager(cfg)
InitManager(cfg) ==
  /\ config = cfg
  /\ requestQueue = <<>>
  /\ isProcessingQueue = FALSE
  /\ queueProcessor = FALSE
  /\ responseTimeHistory = <<>>
  /\ connectionQuality = "unknown"
  /\ activeTimeouts = {}
  /\ timeoutWarnings = {}
  /\ warningTimer = {}
  /\ actualTimer = {}
  /\ progressInterval = {}
  /\ aborted = {}
  /\ stats = InitStats
  /\ requests = [id \in Ids |-> NoRequest]
  /\ nextId = 1
  /\ recorded = <<>>
  /\ startCall = NoStartCall
  /\ drainIntervals = 0
  /\ progressCalls = {}

\* new RetryHandler(max)
InitRetryHandler(max) ==
  /\ maxRetries = max
  /\ pc = "idle"
  /\ attempt = 0
  /\ lastError = NoError
  /\ raised = NoError
  /\ calls = 0
  /\ delays = 0
  /\ currentDelay = 0
  /\ policyCall = [method |-> "none"]

\* the manager with every input and every timer: queue, timers, quality and
\* statistics
Init ==
  /\ InitManager(ModelConfig)
  /\ InitRetryHandler(DefaultMaxRetries)
  /\ classification = NoClassification
  /\ InitProxyService(DirectOnlyConfig)
  /\ InitOllamaService(LocalTarget)
  /\ InitSends
  /\ InitMonitor
  /\ InitHealth

Next ==
  \/ \E p \in Priorities, g \in BOOLEAN : ExecuteRequest(p, g)
  \/ DrainTick
  \/ \E id \in Ids : WarningFires(id)
  \/ \E id \in Ids : DeadlineFires(id)
  \/ \E id \in Ids, t \in SpecTimes : OperationResolves(id, t)
  \/ \E id \in Ids, t \in SpecTimes : OperationRejects(id, t)
  \/ \E t \in SpecTimes : RecordResponseTimeCall(t)
  \/ \E reason \in ClearReasons : ClearQueue(reason)
  \/ ResetQualityTracking
  \/ Cleanup

Spec == Init /\ [][Next]_vars

\* the manager as seen from its queue: callers pass no onProgress and every
\* operation settles before its warning and deadline timers fire
NextQueue ==
  \/ \E p \in Priorities : ExecuteRequest(p, FALSE)
  \/ DrainTick
  \/ \E id \in Ids, t \in SpecTimes : OperationResolves(id, t)
  \/ \E id \in Ids, t \in SpecTimes : OperationRejects(id, t)
  \/ \E t \in SpecTimes : RecordResponseTimeCall(t)
  \/ \E reason \in ClearReasons : ClearQueue(reason)
  \/ ResetQualityTracking
  \/ Cleanup

SpecQueue == Init /\ [][NextQueue]_vars

\* the queue with its drain interval started and stopped directly as well
NextTimer ==
  \/ \E p \in Priorities : ExecuteRequest(p, FALSE)
  \/ DrainTick
  \/ \E id \in Ids, t \in SpecTimes : OperationResolves(id, t)
  \/ \E id \in Ids, t \in SpecTimes : OperationRejects(id, t)
  \/ StartQueueProcessingCall
  \/ StopQueueProcessingCall

SpecTimer == Init /\ [][NextTimer]_vars

\* the manager as seen from its statistics: callers pass onProgress or not,
\* and the callback may throw on its final call
NextStats ==
  \/ \E p \in Priorities, g \in BOOLEAN : ExecuteRequest(p, g)
  \/ DrainTick
  \/ \E id \in Ids, t \in SpecTimes : OperationResolves(id, t)
  \/ \E id \in Ids, t \in SpecTimes : OperationRejects(id, t)
  \/ \E id \in Ids, t \in SpecTimes, t2 \in SpecTimes : FinalProgressThrows(id, t, t2)

SpecStats == Init /\ [][NextStats]_vars

\* the manager as seen from the callbacks of a request: the warning timer,
\* set for the shorter delay, fires before the deadline timer, and the
\* progress interval fires as long as it is scheduled
NextCallbacks ==
  \/ \E p \in Priorities, g \in BOOLEAN : ExecuteRequest(p, g)
  \/ DrainTick
  \/ \E id \in Ids : WarningFires(id)
  \/ \E id \in Ids : id \notin warningTimer /\ DeadlineFires(id)
  \/ \E id \in Ids : ProgressFires(id)
  \/ \E id \in Ids, t \in SpecTimes : OperationResolves(id, t)
  \/ \E id \in Ids, t \in SpecTimes : OperationRejects(id, t)

SpecCallbacks == Init /\ [][NextCallbacks]_vars

\* the queue left to itself: no request of high priority, no response time
\* recorded from outside, no clear; the interval keeps firing while it is
\* scheduled and every started operation settles
NextDrain ==
  \/ \E p \in {"normal", "low"} : ExecuteRequest(p, FALSE)
  \/ DrainTick
  \/ \E id \in Ids, t \in SpecTimes : OperationResolves(id, t)
  \/ \E id \in Ids, t \in SpecTimes : OperationRejects(id, t)

SpecDrain ==
  /\ Init
  /\ [][NextDrain]_vars
  /\ WF_vars(DrainTick)
  /\ \A id \in Ids :
       WF_vars(\E t \in SpecTimes : OperationResolves(id, t) \/ OperationRejects(id, t))

\* the queue fed with requests of one tier only: every executeRequest has the
\* default priority 'normal'
NextOrder ==
  \/ ExecuteRequest("normal", FALSE)
  \/ DrainTick
  \/ \E id \in Ids, t \in SpecTimes : OperationResolves(id, t)
  \/ \E id \in Ids, t \in SpecTimes : OperationRejects(id, t)
  \/ \E t \in SpecTimes : RecordResponseTimeCall(t)

SpecOrder == Init /\ [][NextOrder]_vars

\* the quality tracker alone: recordResponseTime and resetQualityTracking
InitQuality ==
  /\ Cardinality(QualityTimes) >= TestWindow   \* samples enough to fill a window
  /\ \E cfg \in {ModelConfig, DefaultConfig, TestConfig} : InitManager(cfg)
  /\ InitRetryHandler(DefaultMaxRetries)
  /\ classification = NoClassification
  /\ InitProxyService(DirectOnlyConfig)
  /\ InitOllamaService(LocalTarget)
  /\ InitSends
  /\ InitMonitor
  /\ InitHealth

NextQuality ==
  \/ \E t \in QualityTimes : RecordSample(t)
  \/ ResetQualityTracking

SpecQuality == InitQuality /\ [][NextQuality]_vars

\* one run of executeWithRetry for each configured number of attempts
InitRetry ==
  /\ Cardinality(ErrorTypes) = Cardinality(Categories) + 1   \* 'unknown' is no category
  /\ InitManager(ModelConfig)
  /\ \E max \in 0..MaxRetryConfig : InitRetryHandler(max)
  /\ classification = NoClassification
  /\ InitProxyService(DirectOnlyConfig)
  /\ InitOllamaService(LocalTarget)
  /\ InitSends
  /\ InitMonitor
  /\ InitHealth

NextRetry ==
  \/ BeginExecuteWithRetry
  \/ OperationReturns
  \/ \E e \in ThrownErrors(calls), r \in 0..(JitterSteps - 1) : OperationThrows(e, r)
  \/ BackoffElapses

SpecRetry == InitRetry /\ [][NextRetry]_vars

\* direct calls of the two policy functions of the retry handler; they read
\* nothing a call writes, so one call per behaviour covers every call
NextPolicy ==
  \/ /\ policyCall.method = "none"
     /\ \E e \in ThrownErrors(calls), n \in 1..MaxAttempt : CallShouldRetry(e, n)
  \/ /\ policyCall.method = "none"
     /\ \E n \in 1..MaxAttempt, ty \in ErrorTypes, r1, r2 \in 0..(JitterSteps - 1) :
          CallCalculateDelay(n, ty, r1, r2)

SpecPolicy == InitRetry /\ [][NextPolicy]_vars

\* the error classifier: a raw failure, a non-ok HTTP status or an error
\* thrown by fetch, is at hand and is classified
InitClassifier ==
  /\ InitManager(ModelConfig)
  /\ InitRetryHandler(DefaultMaxRetries)
  /\ \/ \E status \in HttpStatuses :
          classification = [method |-> "httpFailure", status |-> status]
     \/ \E name \in ErrorNames, corsMode \in CorsModes,
           proxied, cors, failedToFetch, fetch, networkError, refused, dns, ssl,
           opaque \in BOOLEAN :
          /\ failedToFetch => fetch     \* 'Failed to fetch' includes 'fetch'
          /\ classification =
               [method |-> "connectionFailure",
                error |-> RawError(name, cors, failedToFetch, fetch, networkError,
                                   refused, dns, ssl, opaque),
                corsMode |-> corsMode, proxied |-> proxied]
  /\ InitProxyService(DirectOnlyConfig)
  /\ InitOllamaService(LocalTarget)
  /\ InitSends
  /\ InitMonitor
  /\ InitHealth

NextClassifier ==
  \/ CategorizeHttpErrorCall
  \/ CategorizeConnectionErrorCall

SpecClassifier == InitClassifier /\ [][NextClassifier]_vars

\* the proxy service under every configuration
InitProxy ==
  /\ InitManager(ModelConfig)
  /\ InitRetryHandler(DefaultMaxRetries)
  /\ classification = NoClassification
  /\ \E useProxy, corsProxy, production \in BOOLEAN :
       InitProxyService([useProxy |-> useProxy, corsProxy |-> corsProxy,
                         production |-> production])
  /\ InitOllamaService(LocalTarget)
  /\ InitSends
  /\ InitMonitor
  /\ InitHealth

NextProxy ==
  \/ BeginMakeRequest
  \/ StrategySucceeds
  \/ \E message \in AllFailureMessages : StrategyFails(message)

SpecProxy == InitProxy /\ [][NextProxy]_vars

\* one makeRequest of the service under every network configuration and target
InitRequest ==
  /\ InitManager(ModelConfig)
  /\ InitRetryHandler(DefaultMaxRetries)
  /\ classification = NoClassification
  /\ \E useProxy, corsProxy, production \in BOOLEAN :
       InitProxyService([useProxy |-> useProxy, corsProxy |-> corsProxy,
                         production |-> production])
  /\ \E isRemote \in BOOLEAN, corsMode \in CorsModes :
       InitOllamaService([isRemote |-> isRemote, corsMode |-> corsMode])
  /\ InitSends
  /\ InitMonitor
  /\ InitHealth

NextRequest ==
  \/ ServiceMakeRequest
  \/ DirectFetchResolvesOk
  \/ \E status \in HttpStatuses : DirectFetchResolvesNotOk(status)
  \/ \E name \in ErrorNames,
        cors, failedToFetch, fetch, networkError, refused, dns, ssl,
        opaque \in BOOLEAN :
       DirectFetchRejects(name, cors, failedToFetch, fetch, networkError,
                          refused, dns, ssl, opaque)
  \/ StrategySucceeds
  \/ \E message \in AllFailureMessages : StrategyFails(message)
  \/ ChainReturns
  \/ ChainThrows

SpecRequest == InitRequest /\ [][NextRequest]_vars

\* probes and sends of the service, overlapping at their awaits, under every
\* network configuration and target
NextService ==
  \/ \E op \in OperationIds : CheckConnection(op)
  \/ \E op \in OperationIds : SendMessageInternal(op)
  \/ \E op \in OperationIds : ProbeSucceeds(op)
  \/ \E op \in OperationIds, status \in ProbeStatuses : ProbeFails(op, status, "other")
  \/ \E op \in OperationIds, kind \in FailureKinds : ProbeFails(op, 0, kind)
  \/ \E op \in OperationIds, hasResponse \in BOOLEAN : SendSucceeds(op, hasResponse)
  \/ \E op \in OperationIds, status \in ProbeStatuses : SendFails(op, status, "other")
  \/ \E op \in OperationIds, kind \in FailureKinds : SendFails(op, 0, kind)

SpecService == InitRequest /\ [][NextService]_vars

\* the read loop of a streaming send on every streamed response
InitStream ==
  /\ InitManager(ModelConfig)
  /\ InitRetryHandler(DefaultMaxRetries)
  /\ classification = NoClassification
  /\ InitProxyService(DirectOnlyConfig)
  /\ InitOllamaService(LocalTarget)
  /\ \E items \in StreamItems : InitStreamReader(items)
  /\ fallback = NoFallback
  /\ InitMonitor
  /\ InitHealth

NextStream ==
  \/ BeginReadLoop
  \/ ReadChunk

SpecStream == InitStream /\ [][NextStream]_vars

\* a streaming send run by the retry handler: a read may fail with an error
\* of any category, and the attempt is repeated when shouldRetry allows it
NextStreamRetry ==
  \/ BeginReadLoop
  \/ ReadChunk
  \/ \E e \in {x \in ThrownErrors(streamAttempt) : x.classified} : ReadFails(e)
  \/ StreamBackoffElapses

SpecStreamRetry == InitStream /\ [][NextStreamRetry]_vars

\* sendMessage: the first request of the manager is the send, and its
\* operation is the retry loop around _sendMessageInternal(message, history,
\* signal). executeRequest enters the loop in the same synchronous run, so no
\* timer fires in between; once the signal is aborted the awaited fetch
\* rejects with an AbortError, which the classifier calls a timeout; the
\* request settles when the loop returns or throws
NextSend ==
  \/ nextId = 1 /\ \E p \in Priorities, g \in BOOLEAN : ExecuteRequest(p, g)
  \/ requests[1].state = "running" /\ BeginExecuteWithRetry
  \/ pc # "idle" /\ WarningFires(1)
  \/ pc # "idle" /\ 1 \notin warningTimer /\ DeadlineFires(1)
  \/ 1 \notin aborted /\ OperationReturns
  \/ \E e \in ThrownErrors(calls), r \in 0..(JitterSteps - 1) :
       /\ 1 \in aborted => e.classified /\ e.type = "timeout"
       /\ OperationThrows(e, r)
  \/ BackoffElapses
  \/ pc = "returned" /\ \E t \in SpecTimes : OperationResolves(1, t)
  \/ pc = "threw" /\ \E t \in SpecTimes : OperationRejects(1, t)

SpecSend == InitRetry /\ [][NextSend]_vars

\* sendMessageStream on a response whose headers arrive before the deadline:
\* the first request of the manager is the send, and its operation is
\* _sendMessageStreamInternal, which clears its own timer when the headers
\* have arrived and reads the body without any signal. The timers of the
\* request fire when due and a finished read loop settles the request; the
\* stream delivers its next chunk or stalls
NextStreamSend ==
  \/ nextId = 1 /\ \E p \in Priorities : ExecuteRequest(p, FALSE)
  \/ requests[1].state = "running" /\ BeginReadLoop
  \/ requests[1].state = "running" /\ ReadChunk
  \/ WarningFires(1)
  \/ streamPc # "idle" /\ 1 \notin warningTimer /\ DeadlineFires(1)
  \/ streamPc = "returned" /\ \E t \in SpecTimes : OperationResolves(1, t)

SpecStreamSend ==
  /\ InitStream
  /\ [][NextStreamSend]_vars
  /\ WF_vars(WarningFires(1))
  /\ WF_vars(streamPc # "idle" /\ 1 \notin warningTimer /\ DeadlineFires(1))
  /\ WF_vars(streamPc = "returned" /\ \E t \in SpecTimes : OperationResolves(1, t))

\* the health monitoring of a service: its two timers, the probes they start
\* and destroy()
NextHealth ==
  \/ \E op \in OperationIds : InitialCheckFires(op)
  \/ \E op \in OperationIds : HealthCheckFires(op)
  \/ \E op \in OperationIds : ProbeSucceeds(op)
  \/ \E op \in OperationIds, status \in ProbeStatuses : ProbeFails(op, status, "other")
  \/ \E op \in OperationIds, kind \in FailureKinds : ProbeFails(op, 0, kind)
  \/ Destroy

SpecHealth == InitRequest /\ [][NextHealth]_vars

\* a mounted ConnectionMonitor over a service: automatic and manual
\* reconnection, the probes they and the health interval start, and the
\* effects that read the status. The continuation of a settled checkConnection
\* runs before any other callback
NextMonitor ==
  \/ ReconnectContinues
  \/ ~ContinuationPending /\ \E op \in OperationIds : AutomaticReconnect(op)
  \/ ~ContinuationPending /\ \E op \in OperationIds : ManualReconnect(op)
  \/ ~ContinuationPending /\ UpdateConnectionStatus
  \/ ~ContinuationPending /\ \E op \in OperationIds : HealthCheckFires(op)
  \/ ~ContinuationPending /\ \E op \in OperationIds : ProbeSucceeds(op)
  \/ ~ContinuationPending /\ \E op \in OperationIds, status \in ProbeStatuses : ProbeFails(op, status, "other")
  \/ ~ContinuationPending /\ \E op \in OperationIds, kind \in FailureKinds : ProbeFails(op, 0, kind)

SpecMonitor == InitRequest /\ [][NextMonitor]_vars

\* sendMessageWithFallback around a send run by the retry handler
NextFallback ==
  \/ NextRetry
  \/ FallbackSendReturns
  \/ FallbackSendFails
  \/ FallbackSendRejected

SpecFallback == InitRetry /\ [][NextFallback]_vars



(***************************************************************************)
(* Properties                                                              *)
(***************************************************************************)
InQueue(id) == \E i \in 1..Len(requestQueue) : requestQueue[i] = id

\* the queue is at capacity and holds no low-priority entry
FullWithoutLow ==
  /\ Len(requestQueue) >= config.maxQueueSize
  /\ \A i \in 1..Len(requestQueue) : requests[requestQueue[i]].priority # "low"

\* C1: in every reachable state of the manager the request queue is no longer
\* than config.maxQueueSize.
QueueWithinCapacity ==
  Len(requestQueue) <= config.maxQueueSize

\* a submission met a full queue and the queue is still full
QueueOverflowAttempted ==
  /\ Len(requestQueue) = config.maxQueueSize
  /\ \E id \in Ids : /\ requests[id].state = "rejected"
                     /\ requests[id].reason \in {"full", "capacity"}

\* C2: a request that executeRequest hands to queueRequest while the queue is
\* at capacity and holds no low-priority entry is rejected with the capacity
\* error, the queue is left as it was and no other request changes.
FullQueueRejectsIncoming ==
  [][\A p \in {"normal", "low"}, g \in BOOLEAN :
       (/\ FullWithoutLow
        /\ (Len(requestQueue) > 0 \/ connectionQuality = "poor")
        /\ ExecuteRequest(p, g))
       => /\ requests'[nextId].state = "rejected"
          /\ requests'[nextId].reason = "full"
          /\ requestQueue' = requestQueue
          /\ \A id \in Ids \ {nextId} : requests'[id] = requests[id]]_vars

\* a submission was rejected because the queue was full with nothing to evict
IncomingRejectedAsFull ==
  /\ FullWithoutLow
  /\ \E id \in Ids : requests[id].state = "rejected" /\ requests[id].reason = "full"

\* C3: executeRequest with priority high starts the operation in the same
\* step, whatever the quality label and the queue hold: the request is never
\* a queue entry, the queue is left as it was and every queued request is
\* still waiting.
HighPriorityStartsImmediately ==
  [][\A g \in BOOLEAN :
       ExecuteRequest("high", g)
       => /\ requests'[nextId].state = "running"
          /\ requestQueue' = requestQueue
          /\ \A i \in 1..Len(requestQueue) :
               requests'[requestQueue[i]] = requests[requestQueue[i]]
          /\ \A i \in 1..Len(requestQueue') :
               requests'[requestQueue'[i]].priority # "high"]_vars

\* under poor quality a request submitted after a still queued one is running:
\* it went past the queue
HighStartedAheadOfQueue ==
  /\ connectionQuality = "poor"
  /\ \E r \in Ids, q \in Ids :
       /\ requests[r].state = "running"
       /\ InQueue(q)
       /\ requests[q].state = "queued"
       /\ r > q

\* C4: shouldRetry is false for model, cors and auth at any attempt, false for
\* every error once attempt >= maxRetries, and true for network, timeout,
\* connection, server and unclassified errors while attempt < maxRetries.
ShouldRetryDecision ==
  policyCall.method = "shouldRetry" =>
    LET e == policyCall.error
        n == policyCall.attempt
    IN /\ (e.classified /\ e.type \in {"model", "cors", "auth"})
            => policyCall.result = FALSE
       /\ n >= maxRetries => policyCall.result = FALSE
       /\ (/\ n < maxRetries
           /\ \/ ~e.classified
              \/ e.type \in {"network", "timeout", "connection", "server"})
            => policyCall.result = TRUE

\* shouldRetry allowed the retry of an unclassified error below the limit
UnclassifiedErrorRetried ==
  /\ policyCall.method = "shouldRetry"
  /\ ~policyCall.error.classified
  /\ policyCall.attempt + 1 = maxRetries
  /\ policyCall.result = TRUE

\* C5: when an attempt of executeWithRetry fails with a model, cors or auth
\* error, that same error object is thrown to the caller at once: no further
\* invocation of the operation and no backoff wait follow the failure, so a
\* first attempt failing that way gives exactly one invocation and no wait.
NonRetryableSurfacesAtOnce ==
  (lastError.classified /\ lastError.type \in {"model", "cors", "auth"})
    => /\ pc = "threw"
       /\ raised = lastError
       /\ calls = lastError.id
       /\ delays = calls - 1
       /\ lastError.id = 1 => (calls = 1 /\ delays = 0)

\* the first attempt failed with a cors error and the run is over
CorsErrorSurfacedOnFirstAttempt ==
  /\ pc = "threw"
  /\ maxRetries = DefaultMaxRetries
  /\ lastError.type = "cors"
  /\ lastError.id = 1

\* C6: with maxRetries = 3, a run whose every attempt fails with a connection
\* or network error invokes the operation four times before the error
\* surfaces.
FourAttemptsBeforeSurfacing ==
  (/\ maxRetries = DefaultMaxRetries
   /\ pc = "threw"
   /\ lastError.classified
   /\ lastError.type \in {"connection", "network"})
    => calls = DefaultMaxRetries + 1

\* C7: when every allowed attempt has failed with a retryable classified
\* error, the error thrown is a new error with the retries-exhausted message
\* and the category of the last error.
ExhaustionRaisesWrappedError ==
  (/\ pc = "threw"
   /\ maxRetries >= 1
   /\ calls = maxRetries
   /\ lastError.classified
   /\ lastError.type \in {"network", "timeout", "connection", "server"})
    => /\ raised.message = "retryExhausted"
       /\ raised.type = lastError.type
       /\ raised # lastError

\* the base delay and the capped exponential delay as the claim states them
ClaimedBase(errorType) ==
  IF errorType = "timeout" THEN 2000
  ELSE IF errorType = "network" THEN 1500
  ELSE IF errorType = "server" THEN 3000
  ELSE 1000

ClaimedUncapped(n, errorType) == ClaimedBase(errorType) * (2 ^ (n - 1))

ClaimedDelay(n, errorType) ==
  IF ClaimedUncapped(n, errorType) < 15000 THEN ClaimedUncapped(n, errorType)
  ELSE 15000

\* C8: calculateDelay(attempt, type) lies between d and d + 20% of d for
\* d = min(base(type) * 2^(attempt-1), 15000), never exceeds 18000, and for
\* every jitter the delay of attempt + 1 is above the delay of attempt while
\* base * 2^(attempt-1) is below the cap.
DelayWithinJitterBand ==
  policyCall.method = "calculateDelay" =>
    LET n == policyCall.attempt
        d == ClaimedDelay(n, policyCall.errorType)
    IN /\ d <= policyCall.delay
       /\ 5 * policyCall.delay <= 6 * d
       /\ policyCall.delay <= 18000
       /\ policyCall.nextDelay <= 18000
       /\ ClaimedUncapped(n, policyCall.errorType) < 15000
            => policyCall.nextDelay > policyCall.delay

\* a jittered delay just below the cap is followed by a capped delay
JitteredDelayBelowCappedDelay ==
  /\ policyCall.method = "calculateDelay"
  /\ policyCall.errorType = "server"
  /\ policyCall.attempt = 3
  /\ policyCall.delay > 12000
  /\ policyCall.nextDelay = 15000

\* the label the claim gives to a window under the configured thresholds
ClaimedLabel(h, cfg) ==
  IF h = <<>> THEN "unknown"
  ELSE LET n == Len(h)
           total == SumSeq(h)
           top == CHOOSE m \in {h[i] : i \in 1..n} : \A i \in 1..n : h[i] <= m
       IN IF total < 1000 * n /\ top < 2000 THEN "excellent"
          ELSE IF total < 2000 * n /\ top < cfg.slowConnectionThreshold THEN "good"
          ELSE IF /\ total < cfg.slowConnectionThreshold * n
                  /\ top < cfg.verySlowConnectionThreshold THEN "slow"
          ELSE "poor"

\* C9: the quality label is the stated function of the window and the
\* configured thresholds; in particular [500,600,700] is excellent,
\* [3000,3500,4000] is slow and [6000,7000,8000] is poor.
QualityLabelAsClaimed ==
  /\ connectionQuality = ClaimedLabel(responseTimeHistory, config)
  /\ responseTimeHistory = <<500, 600, 700>> => connectionQuality = "excellent"
  /\ responseTimeHistory = <<3000, 3500, 4000>> => connectionQuality = "slow"
  /\ responseTimeHistory = <<6000, 7000, 8000>> => connectionQuality = "poor"

\* the last k elements of s
LastSamples(s, k) == [i \in 1..k |-> s[Len(s) - k + i]]

\* C10: the window holds at most connectionQualityWindow samples, and after n
\* record calls it holds exactly the last min(n, window) recorded samples in
\* arrival order.
WindowHoldsLastSamples ==
  /\ Len(responseTimeHistory) <= config.connectionQualityWindow
  /\ LET n == Len(recorded)
         k == IF n < config.connectionQualityWindow THEN n
              ELSE config.connectionQualityWindow
     IN responseTimeHistory = LastSamples(recorded, k)

\* more samples were recorded than the window holds and the oldest is gone
OldestSampleEvicted ==
  /\ config.connectionQualityWindow = TestWindow
  /\ Len(recorded) > config.connectionQualityWindow
  /\ Len(responseTimeHistory) = config.connectionQualityWindow
  /\ recorded[1] # responseTimeHistory[1]

\* C11: shouldQueueRequest is true exactly when the label is poor or the queue
\* is non-empty; a normal or low request submitted with an empty queue under
\* unknown, excellent, good or slow quality is started at once and is not
\* queued, and otherwise it goes to queueRequest.
ShouldQueueAsClaimed ==
  [][\A p \in {"normal", "low"}, g \in BOOLEAN :
       ExecuteRequest(p, g)
       => /\ ShouldQueueRequest
               <=> (connectionQuality = "poor" \/ requestQueue # <<>>)
          /\ IF connectionQuality = "poor" \/ requestQueue # <<>>
               THEN /\ requests'[nextId].state \in {"queued", "rejected"}
                    /\ nextId \notin activeTimeouts'
               ELSE /\ connectionQuality \in {"unknown", "excellent", "good", "slow"}
                    /\ requests'[nextId].state = "running"
                    /\ requestQueue' = <<>>
                    /\ stats'.queuedRequests = stats.queuedRequests]_vars

\* under slow quality a request runs and nothing was ever queued
DirectUnderSlowQuality ==
  /\ connectionQuality = "slow"
  /\ requestQueue = <<>>
  /\ stats.queuedRequests = 0
  /\ stats.totalRequests = 1
  /\ \E id \in Ids : requests[id].state = "running"

\* C12: when the hard-deadline timer of a request fires before its operation
\* has settled, the operation is cancelled and the request is rejected with a
\* timeout error in that step, whether or not the operation would settle later.
DeadlineRejectsWithTimeout ==
  [][\A id \in Ids :
       DeadlineFires(id)
       => /\ id \in aborted'
          /\ requests'[id].state = "rejected"
          /\ requests'[id].reason = "timeout"]_vars

\* C13: once executeRequestWithTimeout has settled for a request, on the
\* success path or on the failure path, neither its warning timer nor its
\* hard-deadline timer nor its progress interval is still scheduled.
TimersClearedOnSettle ==
  \A id \in Ids :
    requests[id].state \in {"resolved", "rejected"}
      => id \notin (warningTimer \cup actualTimer \cup progressInterval)

\* C14: a drain tick removes at most one queue entry and only the head, which
\* it starts; under poor or unknown quality it removes and starts nothing; a
\* tick that finds the queue empty stops the drain timer.
DrainTickTakesHead ==
  [][DrainTick
     => /\ requestQueue = <<>>
             => /\ ~queueProcessor'
                /\ ~isProcessingQueue'
                /\ requestQueue' = <<>>
                /\ requests' = requests
        /\ requestQueue # <<>>
             => IF connectionQuality \in {"poor", "unknown"}
                  THEN /\ requestQueue' = requestQueue
                       /\ requests' = requests
                       /\ activeTimeouts' = activeTimeouts
                  ELSE /\ requestQueue' = Tail(requestQueue)
                       /\ requests'[Head(requestQueue)].state = "running"
                       /\ Head(requestQueue) \in activeTimeouts'
                       /\ \A id \in Ids \ {Head(requestQueue)} :
                            requests'[id] = requests[id]]_vars

\* two requests were queued; the first has been started by a drain tick and
\* the second is still waiting
HeadDrainedTailWaiting ==
  /\ stats.totalRequests = 2
  /\ stats.queuedRequests = 2
  /\ requests[1].state = "running"
  /\ requestQueue = <<2>>
  /\ queueProcessor

\* the promise of a request has settled
Settled(id) == requests[id].state \in {"resolved", "rejected"}

\* C15: of two requests of the same tier that both went through the queue,
\* the one enqueued first settles before the one enqueued later, whatever the
\* order of drain ticks and completions.  (Every request is normal here, ids
\* are given in arrival order, and queuedRequests = totalRequests says that
\* every submitted request was admitted to the queue.)
QueuedCompleteInArrivalOrder ==
  stats.queuedRequests = stats.totalRequests
    => \A a \in Ids, b \in Ids :
         (a < b /\ Settled(b)) => Settled(a)

\* the queued requests of low priority
LowEntries == {id \in Ids : InQueue(id) /\ requests[id].priority = "low"}

\* the queue without the entry of request id
WithoutEntry(q, id) == SelectSeq(q, LAMBDA x : x # id)

\* C16: when executeRequest hands a request to queueRequest while the queue is
\* at capacity and holds a low-priority entry, exactly one entry leaves the
\* queue: the low-priority entry that arrived first (ids are given in arrival
\* order).  It is rejected with the capacity error, the incoming request is
\* admitted at the tail, also when it is itself low, and no other request
\* changes.
OldestLowEvictedWhenFull ==
  [][\A p \in {"normal", "low"}, g \in BOOLEAN :
       (/\ Len(requestQueue) >= config.maxQueueSize
        /\ LowEntries # {}
        /\ ExecuteRequest(p, g))
       => LET victim == CHOOSE v \in LowEntries : \A w \in LowEntries : v <= w
          IN /\ requests'[victim].state = "rejected"
             /\ requests'[victim].reason = "capacity"
             /\ requestQueue' = Append(WithoutEntry(requestQueue, victim), nextId)
             /\ requests'[nextId].state = "queued"
             /\ requests'[nextId].priority = p
             /\ \A id \in Ids \ {victim, nextId} : requests'[id] = requests[id]]_vars

\* the queue held two low entries, a third low request arrived and the oldest
\* entry was evicted for it
LowEvictedForLow ==
  /\ requests[1].state = "rejected"
  /\ requests[1].reason = "capacity"
  /\ requestQueue = <<2, 3>>
  /\ requests[2].priority = "low"
  /\ requests[3].priority = "low"

\* C17: clearQueue(reason) rejects every request that is in the queue with an
\* error carrying reason, leaves the queue empty and stops the drain timer;
\* requests that are not in the queue, those in flight included, and their
\* timers are left as they were.
ClearQueueRejectsPending ==
  [][\A reason \in ClearReasons :
       ClearQueue(reason)
       => /\ requestQueue' = <<>>
          /\ ~queueProcessor'
          /\ ~isProcessingQueue'
          /\ \A id \in Ids :
               IF InQueue(id)
                 THEN /\ requests'[id].state = "rejected"
                      /\ requests'[id].reason = reason
                 ELSE requests'[id] = requests[id]
          /\ activeTimeouts' = activeTimeouts
          /\ warningTimer' = warningTimer
          /\ actualTimer' = actualTimer]_vars

\* two queued requests were rejected by clearQueue('recovery') while an
\* earlier request is still in flight
PendingClearedInFlightKept ==
  /\ requests[1].state = "running"
  /\ 1 \in activeTimeouts
  /\ requests[2].state = "rejected" /\ requests[2].reason = "recovery"
  /\ requests[3].state = "rejected" /\ requests[3].reason = "recovery"
  /\ requestQueue = <<>>
  /\ ~queueProcessor

\* a failure has been classified
Classified ==
  classification.method \in {"categorizeHttpError", "categorizeConnectionError"}

\* C18: every raw failure gets the same category, and so the same retry
\* decision, whether the target of the service is local or remote.
CategoryIndependentOfTarget ==
  Classified
    => /\ classification.local.errorType = classification.remote.errorType
       /\ classification.retryLocal = classification.retryRemote

\* the category the ordered rule list of the claim gives to an HTTP status
ClaimedHttpCategory(status) ==
  IF status = 404 THEN "model"
  ELSE IF status \in {401, 403} THEN "auth"
  ELSE IF status \in {500, 502, 503} THEN "server"
  ELSE IF status = 504 THEN "timeout"
  ELSE "connection"

\* the category the ordered rule list of the claim gives to a thrown error
ClaimedErrorCategory(error) ==
  IF error.name = "AbortError" THEN "timeout"
  ELSE IF error.cors THEN "cors"
  ELSE IF error.fetch \/ error.networkError \/ error.failedToFetch
    THEN IF error.refused THEN "connection" ELSE "network"
  ELSE IF error.dns THEN "network"
  ELSE "connection"

\* C19: the classifier gives every raw failure the category of the first
\* matching rule of: abort -> timeout; 404 -> model; 401/403 -> auth;
\* 500/502/503 -> server; 504 -> timeout; cross-origin phrasing -> cors;
\* fetch/network failure -> network, or connection when refused; DNS
\* phrasing -> network; anything else -> connection.
CategoryByOrderedRules ==
  /\ classification.method = "categorizeHttpError"
       => /\ classification.local.errorType
               = ClaimedHttpCategory(classification.status)
          /\ classification.remote.errorType
               = ClaimedHttpCategory(classification.status)
  /\ classification.method = "categorizeConnectionError"
       => /\ classification.local.errorType
               = ClaimedErrorCategory(classification.error)
          /\ classification.remote.errorType
               = ClaimedErrorCategory(classification.error)

EmbeddedMessages == <<proxyThrown.lastMessage>>

\* C21 (as stated): when every strategy has failed, the message of the error
\* makeRequest throws holds the failure message of every attempted strategy,
\* one per strategy in attempt order.
MessageEmbedsEveryFailure ==
  proxyPc = "threw"
    => /\ Len(EmbeddedMessages) = Len(proxyAttempts)
       /\ \A i \in 1..Len(proxyAttempts) :
            EmbeddedMessages[i] = proxyErrors[i].message

\* C21 (amended): when every strategy has failed, makeRequest throws one
\* error of type 'proxy' whose message holds the failure message of the last
\* attempted strategy; the failures of all attempted strategies, one per
\* strategy in attempt order, are attached to it as originalError.
MessageEmbedsLastFailure ==
  proxyPc = "threw"
    => /\ proxyThrown.type = "proxy"
       /\ proxyAttempts = proxyStrategies
       /\ proxyThrown.lastMessage = proxyErrors[Len(proxyErrors)].message
       /\ Len(proxyThrown.originalError) = Len(proxyAttempts)
       /\ \A i \in 1..Len(proxyAttempts) :
            /\ proxyThrown.originalError[i].strategy = proxyAttempts[i]
            /\ proxyThrown.originalError[i].message = proxyErrors[i].message

\* the direct request and then the custom proxy failed, with different messages
DirectAndCustomFailed ==
  /\ proxyPc = "threw"
  /\ proxyAttempts = <<"direct", "custom">>
  /\ proxyErrors[1].message = "Direct request timeout"
  /\ proxyThrown.lastMessage = "Custom proxy request failed"


\* the category the classifier gives the direct failure makeRequest caught
DirectFailureCategory ==
  CategorizeConnectionError(requestError.raw, serviceConfig.isRemote,
                            serviceConfig.corsMode,
                            proxyConfig.useProxy /\ proxyConfig.corsProxy).errorType

\* C22 (as stated): when proxying is not forced, a failed direct request is
\* passed to the fallback chain exactly once if the failure is classified
\* cors, and surfaces without the chain being called otherwise.
EscalatedIffClassifiedCors ==
  (~proxyConfig.useProxy /\ requestError.raw.name # "none")
    => requestChainCalls = IF DirectFailureCategory = "cors" THEN 1 ELSE 0

\* C22 (amended): when proxying is not forced, a failed direct request is
\* passed to the fallback chain, exactly once, if and only if isCorsError
\* accepts the failure, the target is remote and a custom proxy is
\* configured; then a response is returned or a cors error wrapping the
\* failure surfaces; any other direct failure surfaces unchanged without the
\* chain being called.
EscalatedIffCorsRemoteAndProxy ==
  (~proxyConfig.useProxy /\ requestError.raw.name # "none")
    => IF /\ IsCorsError(requestError.raw, serviceConfig.isRemote,
                         serviceConfig.corsMode)
          /\ serviceConfig.isRemote
          /\ proxyConfig.corsProxy
         THEN /\ requestChainCalls = 1
              /\ proxyCalls = 1
              /\ requestPc \in {"fallback", "returned", "threw"}
              /\ requestPc = "threw"
                   => /\ requestThrown.classified
                      /\ requestThrown.type = "cors"
                      /\ proxyPc = "threw"
         ELSE /\ requestChainCalls = 0
              /\ proxyCalls = 0
              /\ requestPc = "threw"
              /\ requestThrown = requestError

\* a CORS failure of the direct request to a remote target went through the
\* chain, which failed too
CorsFailureEscalatedAndSurfaced ==
  /\ ~proxyConfig.useProxy
  /\ requestError.raw.cors
  /\ requestChainCalls = 1
  /\ Len(proxyErrors) = 2
  /\ requestPc = "threw"
  /\ requestThrown.type = "cors"


\* the status changes the connection state is said to make
ClaimedStatusChanges ==
  {<<"disconnected", "connecting">>, <<"connecting", "connected">>,
   <<"connecting", "error">>, <<"connected", "connecting">>,
   <<"error", "connecting">>}

\* C23: whatever the interleaving of probes and sends, connectionStatus.status
\* changes only from disconnected to connecting, from connecting to connected
\* or error, and from connected or error to connecting; never directly
\* between connected and error.
StatusChangesAsClaimed ==
  [][connectionStatus'.status # connectionStatus.status
       => <<connectionStatus.status, connectionStatus'.status>>
            \in ClaimedStatusChanges]_vars


\* C26: when _sendMessageInternal throws an error of type connection to its
\* caller, connectionStatus.status is error, whatever it was before the send.
StatusErrorAfterConnectionFailure ==
  [][\A op \in OperationIds :
       (/\ operations'[op].kind = "send"
        /\ operations[op].pc # "threw"
        /\ operations'[op].pc = "threw"
        /\ operations'[op].thrown.type = "connection")
         => connectionStatus'.status = "error"]_vars

\* C29: when checkConnection's request is answered with status 404, 401 or
\* 503, the error checkConnection throws has the type of that status: model,
\* auth and server.
ProbeErrorCarriesStatusCategory ==
  \A op \in OperationIds :
    (/\ operations[op].kind = "probe"
     /\ operations[op].pc = "threw"
     /\ operations[op].thrown.status \in ProbeStatuses)
      => operations[op].thrown.type
           = ClaimedHttpCategory(operations[op].thrown.status)


\* the number of streamed objects up to and including the first one with done
CountedObjects ==
  IF \E i \in 1..Len(objects) : objects[i].done
    THEN CHOOSE i \in 1..Len(objects) :
           objects[i].done /\ \A j \in 1..(i - 1) : ~objects[j].done
    ELSE Len(objects)

\* the fragments of the first n objects, concatenated
RECURSIVE ClaimedText(_)
ClaimedText(n) ==
  IF n = 0 THEN <<>> ELSE ClaimedText(n - 1) \o objects[n].response

\* one onChunk call per fragment of the first n objects, with the text so far
RECURSIVE ClaimedDeliveries(_)
ClaimedDeliveries(n) ==
  IF n = 0 THEN <<>>
  ELSE IF objects[n].response = <<>> THEN ClaimedDeliveries(n - 1)
  ELSE Append(ClaimedDeliveries(n - 1),
              [chunk |-> objects[n].response, full |-> ClaimedText(n)])

\* the chunks in which an object with done is completely received
DoneChunks ==
  {r \in 1..Len(stream) :
     \E i \in 1..Len(stream[r]) :
       stream[r][i].done /\ stream[r][i].part \in {"whole", "tail"}}

\* C24: a streaming send returns the fragments of the objects received up to
\* the first one with done: true, concatenated in arrival order, has passed
\* to onChunk each fragment with the text so far, and reads no chunk after
\* the one that brings the first done marker.
StreamConcatenatesUntilDone ==
  /\ streamPc = "returned"
       => /\ streamReturned = ClaimedText(CountedObjects)
          /\ delivered = ClaimedDeliveries(CountedObjects)
  /\ \A r \in DoneChunks : streamReads <= r



\* C25: sendMessageWithFallback returns the fallback response if and only if
\* the send failed with an OllamaConnectionError of type connection, network
\* or timeout; after any other failure it throws the error it caught,
\* unchanged.
FallbackIffConnectionClass ==
  fallback.result \in {"canned", "threw"}
    => IF fallback.caught.classified /\ fallback.caught.type \in ConnectionClass
         THEN fallback.result = "canned"
         ELSE fallback.result = "threw" /\ fallback.thrown = fallback.caught


\* C30 (as stated): a direct call of startQueueProcessing while the queue is
\* empty throws an error, and a call while the queue is being processed
\* creates no second interval.
StartOnEmptyQueueRaises ==
  startCall.outcome # "none"
    => /\ (startCall.queueEmpty /\ ~startCall.wasProcessing)
            => startCall.outcome = "threw"
       /\ startCall.wasProcessing => ~startCall.created

\* C30 (amended): a direct call of startQueueProcessing never throws; while
\* the queue is not being processed it creates the interval and sets
\* isProcessingQueue, also when the queue is empty; while the queue is being
\* processed it creates no second interval.
StartNeverRaisesAndIsIdempotent ==
  startCall.outcome # "none"
    => /\ startCall.outcome = "returned"
       /\ startCall.created = ~startCall.wasProcessing
       /\ startCall.processing

\* the drain interval was started directly while the queue was empty and not
\* being processed
StartedOnEmptyQueue ==
  /\ startCall.outcome = "returned"
  /\ startCall.queueEmpty
  /\ ~startCall.wasProcessing
  /\ startCall.created

\* the requests whose operation resolved: the promise resolved, or was
\* rejected by the final progress callback after the operation had resolved
OperationsResolved ==
  {id \in Ids : \/ requests[id].state = "resolved"
                \/ requests[id].state = "rejected" /\ requests[id].reason = "callback"}

\* the requests whose operation rejected
OperationsRejected ==
  {id \in Ids : requests[id].state = "rejected" /\ requests[id].reason = "error"}

\* C27: totalRequests is the number of executeRequest calls, successfulRequests
\* the number of operations that resolved, failedRequests the number of
\* operations that rejected, their sum never exceeds totalRequests, and no
\* counter ever decreases.
StatsCountEachRequestOnce ==
  /\ [](/\ stats.totalRequests = nextId - 1
        /\ stats.successfulRequests = Cardinality(OperationsResolved)
        /\ stats.failedRequests = Cardinality(OperationsRejected)
        /\ stats.successfulRequests + stats.failedRequests <= stats.totalRequests)
  /\ [][/\ stats'.totalRequests >= stats.totalRequests
        /\ stats'.successfulRequests >= stats.successfulRequests
        /\ stats'.failedRequests >= stats.failedRequests
        /\ stats'.timeoutRequests >= stats.timeoutRequests
        /\ stats'.queuedRequests >= stats.queuedRequests]_vars

\* C28 (as stated): a normal or low request submitted while the label is poor
\* or unknown becomes a queue entry (unless the full queue turns it away), a
\* normal request under unknown quality with an empty queue included.
QueuedUnderPoorOrUnknown ==
  [][\A p \in {"normal", "low"}, g \in BOOLEAN :
       (ExecuteRequest(p, g) /\ connectionQuality \in {"poor", "unknown"}
          /\ ~FullWithoutLow)
       => /\ requests'[nextId].state = "queued"
          /\ \E i \in 1..Len(requestQueue') : requestQueue'[i] = nextId]_vars

\* C28 (amended): a normal or low request becomes a queue entry on admission
\* exactly when the label is poor or the queue is non-empty, and the queue is
\* not full of entries above low priority; under unknown quality with an empty
\* queue it is started at once.
QueuedWhenPoorOrBacklog ==
  [][\A p \in {"normal", "low"}, g \in BOOLEAN :
       ExecuteRequest(p, g)
       => /\ requests'[nextId].state = "queued"
               <=> /\ connectionQuality = "poor" \/ Len(requestQueue) > 0
                   /\ ~FullWithoutLow
          /\ requests'[nextId].state = "queued"
               => /\ \E i \in 1..Len(requestQueue') : requestQueue'[i] = nextId
                  /\ requests'[nextId].priority = p
                  /\ stats'.queuedRequests = stats.queuedRequests + 1
                  /\ isProcessingQueue'
          /\ (connectionQuality = "unknown" /\ Len(requestQueue) = 0)
               => /\ requests'[nextId].state = "running"
                  /\ nextId \in activeTimeouts'
                  /\ requestQueue' = <<>>]_vars

\* the first request, submitted under unknown quality, ran at once and has
\* resolved; the second, submitted under poor quality, is the only queue entry
DirectThenQueuedUnderPoor ==
  /\ requests[1].state = "resolved"
  /\ connectionQuality = "poor"
  /\ requestQueue = <<2>>
  /\ requests[2].state = "queued"
  /\ stats.queuedRequests = 1

\* C34: after cleanup() the queue is empty and every entry it held is
\* rejected, the drain interval is stopped, no warning timer, deadline timer
\* or progress interval is scheduled for any request, and the label is
\* unknown with an empty window.
CleanupLeavesNothingScheduled ==
  [][Cleanup
       => /\ requestQueue' = <<>>
          /\ \A i \in 1..Len(requestQueue) :
               requests'[requestQueue[i]].state = "rejected"
          /\ ~queueProcessor'
          /\ ~isProcessingQueue'
          /\ warningTimer' = {}
          /\ actualTimer' = {}
          /\ progressInterval' = {}
          /\ connectionQuality' = "unknown"
          /\ responseTimeHistory' = <<>>]_vars

\* C31: once the deadline timer of a request has fired and aborted it,
\* neither onProgress nor the onTimeout warning is called for that request,
\* whether the operation has settled or not.
NoCallbackAfterDeadline ==
  /\ [](\A c \in progressCalls : ~c.aborted)
  /\ [][\A id \in Ids : WarningFires(id) => id \notin aborted]_vars

\* C37: at most one drain interval is scheduled, isProcessingQueue is true
\* exactly when one is, the handle queueProcessor is set exactly then, and
\* while the queue holds an entry the interval is scheduled.
OneDrainTimerWhileQueued ==
  /\ drainIntervals \in {0, 1}
  /\ isProcessingQueue <=> drainIntervals = 1
  /\ queueProcessor <=> drainIntervals = 1
  /\ Len(requestQueue) > 0 => drainIntervals = 1

\* two requests are waiting in the queue, both admitted by queueRequest, the
\* second while the interval was already running
TwoQueuedOneTimer ==
  /\ Len(requestQueue) = 2
  /\ stats.queuedRequests = 2
  /\ drainIntervals = 1

QueuedEventuallyLeaves ==
  \A id \in Ids : (requests[id].state = "queued") ~> (requests[id].state # "queued")

\* s is an initial segment of t
IsPrefix(s, t) ==
  /\ Len(s) <= Len(t)
  /\ \A i \in 1..Len(s) : s[i] = t[i]

\* C40: within one streaming send, retried attempts included, the text passed
\* to each onChunk call extends the text passed to the call before, and the
\* value returned is the text passed to the last call.
StreamTextOnlyGrows ==
  /\ \A i \in 1..(Len(delivered) - 1) :
       IsPrefix(delivered[i].full, delivered[i + 1].full)
  /\ (streamPc = "returned" /\ delivered # <<>>)
       => streamReturned = delivered[Len(delivered)].full

\* C38: once the deadline timer of a send has fired, the retry loop inside
\* the request invokes the operation no more and starts no backoff wait.
NoAttemptAfterDeadline ==
  [][1 \in aborted => (calls' = calls /\ delays' = delays)]_vars

\* C32: a streaming send whose body is still being read when the deadline
\* timer fires, and delivers nothing more, is rejected: from then on either
\* the read loop ends or the request is rejected.
StalledStreamTimesOut ==
  (streamPc = "reading" /\ 1 \in aborted)
    ~> (streamPc # "reading" \/ requests[1].state = "rejected")

\* C39: after destroy() no health probe is started any more, by the interval
\* or by the initial timeout, and no timer sets the connection status.
NoProbeAfterDestroy ==
  [][destroyed
       => /\ \A op \in OperationIds :
               operations[op].kind = "none" => operations'[op].kind = "none"
          /\ connectionStatus'.status = "connecting"
               => connectionStatus.status = "connecting"]_vars

\* C33: in ConnectionMonitor an automatic reconnection starts only while
\* reconnectAttempts is below 5, and a reconnection that ends with the status
\* 'connected' leaves reconnectAttempts at 0, so that five automatic attempts
\* are available again after a later loss
SuccessfulReconnectResetsCounter ==
  [][/\ (reconnect.by = "none" /\ reconnect'.by = "auto")
          => reconnectAttempts < AutoReconnectLimit
     /\ (isReconnecting /\ ~isReconnecting' /\ monitorStatus' = "connected")
          => reconnectAttempts' = 0]_vars

====
